---- MODULE Spec2Model ----
(***************************************************************************)
(* Resilient request layer of n8n-nodes-lirax: ThrottlingManager,          *)
(* CircuitBreaker, liraxRequest (retry / failover) and                     *)
(* LiraXCore.executeOperation (cache / idempotency).                       *)
(*                                                                         *)
(* JavaScript runs on one event loop: every action below is one            *)
(* synchronous segment of a handler, from one `await` to the next.         *)
(* Date.now() is the variable `now`, in milliseconds.                      *)
(***************************************************************************)
EXTENDS Integers, Sequences, FiniteSets, TLC

\* ------------------------------------------------------------------ bounds
\* value of Date.now() when the process starts
StartTime == 4000000
\* number of throttle() calls in one behaviour
MaxThrottleCalls == 3
\* clock steps of ThrottleStepMs a throttle behaviour may take
MaxThrottleTicks == 3
\* granularity of the clock in the throttle specification
ThrottleStepMs == 2500

\* concurrent call slots on one circuit breaker
MaxBreakerCalls == 2
\* concurrent call slots in the probe-budget specification
MaxProbeCalls == 4
\* clock steps of BreakerStepMs a breaker behaviour may take
MaxBreakerTicks == 3
\* granularity of the clock in the breaker specification
BreakerStepMs == 30000
\* cap on the breaker's unbounded counters
MaxCount == 6
\* largest configured credentials.retries
MaxRetries == 1
\* clock steps of BreakerStepMs a liraxRequest behaviour may take
MaxRequestTicks == 3
\* executeOperation calls in progress at the same time
MaxOverlap == 2
\* the executeOperation calls of a behaviour and its clock steps
MaxCoreOps == 2
MaxCoreTicks == 2
CoreStepMs == 600
\* the operations on cache providers in a behaviour and its clock steps
MaxCacheOps == 3
MaxCacheTicks == 2
CacheStepMs == 1000
CacheLeapMs == 3600000
\* the retries of one endpoint that are followed
MaxBackoffRetries == 4
\* LiraX.execute: input items, items per batch, batches run together
MaxItems == 3
MaxBatchSize == 2
MaxConcurrentBatches == 2

\* --------------------------------------------------------------- constants
SMS_THROTTLE_DELAY_MS == 5000
CIRCUIT_BREAKER_RESET_TIMEOUT_MS == 60000
failureThreshold == 5
halfOpenMaxAttempts == 3
DEFAULT_RETRY_ATTEMPTS == 3
DEFAULT_IDEMPOTENCY_TTL == 86400
DEFAULT_CACHE_TTL == 3600
PROVIDER_DEFAULT_TTL == 3600
DEFAULT_BACKOFF_BASE_MS == 1000
MAX_RETRY_DELAY_MS == 30000
BREAKER_CLEANUP_THRESHOLD_MS == 3600000
THROTTLE_CLEANUP_THRESHOLD_MS == 300000
\* Number.MAX_SAFE_INTEGER is 2^53 - 1; the largest integer of the model's
\* arithmetic stands for it, no clock value reaches either
MAX_SAFE_INTEGER == 2147483647

VARIABLES
    now,          \* Date.now()
    throttleMap,  \* ThrottlingManager.throttleMap : key -> ThrottleEntry
    tcalls,       \* the throttle() invocations, by call id
    tseq,         \* number of throttle() invocations made so far
    breakers,     \* CircuitBreakerFactory.breakers : credentials id -> CircuitBreaker
    bcalls,       \* the CircuitBreaker.execute invocations, by call slot
    bhist,        \* history of each breaker: what its calls did, kept
                  \* apart from the breaker's own counters
    req,          \* the liraxRequest call in progress
    stores,       \* the cache store of each LiraXCore instance
    ecalls,       \* the executeOperation calls in progress
    ehist,        \* per idempotency key: the first call that succeeded
    ecount,       \* executeOperation calls made so far
    cache,        \* the cache providers under test and their store
    handled,      \* an error given to LiraXErrorHandler.handle, and its result
    backoff,      \* the retries of one endpoint and the delay before each
    hook,         \* the webhook request handled last, and what became of it
    run,          \* the LiraX.execute call in progress
    swept,        \* per breaker: when it was last used, and what
                  \* CircuitBreakerFactory.cleanup removed
    admitted      \* per breaker and call: the HALF_OPEN period the call was
                  \* admitted in

throttleVars == <<throttleMap, tcalls, tseq>>
breakerVars == <<breakers, bcalls, bhist>>
coreVars == <<stores, ecalls, ehist, ecount>>
vars == <<now, throttleMap, tcalls, tseq, breakers, bcalls, bhist, req,
          stores, ecalls, ehist, ecount, cache, handled, backoff, hook, run,
          swept, admitted>>

\* ============================================================ clock
Tick(step, horizon) ==
    /\ now + step <= StartTime + horizon
    /\ now' = now + step

\* ============================================================ ThrottlingManager
ThrottleKeys == {"sms:a", "sms:b"}
TCalls == 1 .. MaxThrottleCalls

\* A promise is identified by the call whose operation() created it;
\* 0 stands for null.
NoEntry == [present |-> FALSE, lastRequestTime |-> 0, pending |-> 0]
ThrottleEntry(t, p) == [present |-> TRUE, lastRequestTime |-> t, pending |-> p]

TCallIdle ==
    [pc |-> "idle", key |-> "sms:a", now |-> 0, entry |-> NoEntry,
     wake |-> 0, seq |-> 0]

\* the promise returned by operation() of call p has settled
Settled(p) == tcalls[p].pc \in {"resolved", "rejected"}

\* lines 83-87: const promise = operation(); throttleMap.set(key, {...})
StartOperation(c, call) ==
    /\ tcalls' = [tcalls EXCEPT ![c] = [call EXCEPT !.pc = "running"]]
    /\ throttleMap' = [throttleMap EXCEPT ![call.key] = ThrottleEntry(now, c)]

\* lines 77-87: the residual delay, then the operation
DelayOrStart(c, call) ==
    IF call.entry.present /\ call.now - call.entry.lastRequestTime < SMS_THROTTLE_DELAY_MS
    THEN /\ tcalls' = [tcalls EXCEPT ![c] =
                [call EXCEPT !.pc = "sleeping",
                             !.wake = now + (SMS_THROTTLE_DELAY_MS
                                        - (call.now - call.entry.lastRequestTime))]]
         /\ UNCHANGED throttleMap
    ELSE StartOperation(c, call)

\* lines 64-75: throttle(key, operation) is called
Throttle(c, key) ==
    /\ tcalls[c].pc = "idle"
    /\ LET call == [tcalls[c] EXCEPT !.key = key, !.now = now,
                                     !.entry = throttleMap[key], !.seq = tseq + 1]
       IN  IF call.entry.present /\ call.entry.pending # 0
           THEN /\ tcalls' = [tcalls EXCEPT ![c] = [call EXCEPT !.pc = "awaitPending"]]
                /\ UNCHANGED throttleMap
           ELSE DelayOrStart(c, call)
    /\ tseq' = tseq + 1
    /\ UNCHANGED now

\* a continuation of `await entry.pending` is queued: it runs before the
\* event loop takes its next timer or I/O callback
ContinuationQueued ==
    \E c \in TCalls :
        tcalls[c].pc = "awaitPending" /\ Settled(tcalls[c].entry.pending)

\* continuations of one promise run in the order in which they awaited it
FirstWaiter(c) ==
    \A d \in TCalls :
        (/\ tcalls[d].pc = "awaitPending"
         /\ tcalls[d].entry.pending = tcalls[c].entry.pending)
        => tcalls[c].seq <= tcalls[d].seq

\* line 74: `await entry.pending` returns, or throws what the awaited
\* operation threw
ThrottleAfterPending(c) ==
    /\ tcalls[c].pc = "awaitPending"
    /\ Settled(tcalls[c].entry.pending)
    /\ FirstWaiter(c)
    /\ IF tcalls[tcalls[c].entry.pending].pc = "rejected"
       THEN /\ tcalls' = [tcalls EXCEPT ![c].pc = "aborted"]
            /\ UNCHANGED throttleMap
       ELSE DelayOrStart(c, tcalls[c])
    /\ UNCHANGED <<now, tseq>>

\* line 79: the timer of `await this.delay(waitTime)` fires
ThrottleAfterDelay(c) ==
    /\ tcalls[c].pc = "sleeping"
    /\ now >= tcalls[c].wake
    /\ ~ContinuationQueued
    /\ StartOperation(c, tcalls[c])
    /\ UNCHANGED <<now, tseq>>

\* lines 89-101: the operation's promise settles; the finally block clears
\* `pending` when the entry still holds this call's promise
OperationSettles(c, ok) ==
    /\ tcalls[c].pc = "running"
    /\ ~ContinuationQueued
    /\ tcalls' = [tcalls EXCEPT ![c].pc = IF ok THEN "resolved" ELSE "rejected"]
    /\ LET currentEntry == throttleMap[tcalls[c].key]
       IN  throttleMap' =
             IF currentEntry.present /\ currentEntry.pending = c
             THEN [throttleMap EXCEPT ![tcalls[c].key] =
                       [currentEntry EXCEPT !.pending = 0]]
             ELSE throttleMap
    /\ UNCHANGED <<now, tseq>>

TickThrottle ==
    /\ ~ContinuationQueued
    /\ Tick(ThrottleStepMs, MaxThrottleTicks * ThrottleStepMs)
    /\ UNCHANGED <<throttleMap, tcalls, tseq>>

ThrottleStart ==
    /\ throttleMap = [k \in ThrottleKeys |-> NoEntry]
    /\ tcalls = [c \in TCalls |-> TCallIdle]
    /\ tseq = 0

\* ============================================================ CircuitBreaker
BreakerIds == {"default"}
\* the call slots of the behaviour
BCalls == DOMAIN bcalls

\* new CircuitBreaker()
NewBreaker ==
    [state |-> "CLOSED", failures |-> 0, lastFailureTime |-> 0,
     halfOpenAttempts |-> 0, successCount |-> 0]

\* Gate with the reset timeout compared by >= : a call made exactly
\* resetTimeout after the last failure is let through
Gate_ResetAtTimeout(b, t) ==
    LET b1 == IF b.state = "OPEN" /\ t - b.lastFailureTime >= CIRCUIT_BREAKER_RESET_TIMEOUT_MS
              THEN [b EXCEPT !.state = "HALF_OPEN", !.halfOpenAttempts = 0,
                             !.successCount = 0]
              ELSE b
    IN  IF b1.state = "OPEN"
        THEN [breaker |-> b1, admit |-> FALSE]
        ELSE IF b1.state = "HALF_OPEN" /\ b1.halfOpenAttempts >= halfOpenMaxAttempts
        THEN [breaker |-> [b1 EXCEPT !.state = "OPEN", !.lastFailureTime = t],
              admit |-> FALSE]
        ELSE [breaker |-> b1, admit |-> TRUE]

\* execute(), lines 655-669: the breaker after the two checks, and whether
\* the operation is invoked
Gate(b, t) ==
    LET b1 == IF b.state = "OPEN" /\ t - b.lastFailureTime > CIRCUIT_BREAKER_RESET_TIMEOUT_MS
              THEN [b EXCEPT !.state = "HALF_OPEN", !.halfOpenAttempts = 0,
                             !.successCount = 0]
              ELSE b
    IN  IF b1.state = "OPEN"
        THEN [breaker |-> b1, admit |-> FALSE]
        ELSE IF b1.state = "HALF_OPEN" /\ b1.halfOpenAttempts >= halfOpenMaxAttempts
        THEN [breaker |-> [b1 EXCEPT !.state = "OPEN", !.lastFailureTime = t],
              admit |-> FALSE]
        ELSE [breaker |-> b1, admit |-> TRUE]

\* onSuccess that leaves the failure count as it is
onSuccess_KeepsFailures(b) ==
    LET b1 == [b EXCEPT !.halfOpenAttempts = 0,
                        !.successCount = b.successCount + 1]
    IN  IF b1.state = "HALF_OPEN" /\ b1.successCount >= 3
        THEN [b1 EXCEPT !.state = "CLOSED", !.successCount = 0]
        ELSE IF b1.state = "HALF_OPEN"
        THEN [b1 EXCEPT !.halfOpenAttempts = b1.halfOpenAttempts + 1]
        ELSE b1

\* onSuccess closing the breaker one success early
onSuccess_ClosesAtTwo(b) ==
    LET b1 == [b EXCEPT !.failures = 0, !.halfOpenAttempts = 0,
                        !.successCount = b.successCount + 1]
    IN  IF b1.state = "HALF_OPEN" /\ b1.successCount >= 2
        THEN [b1 EXCEPT !.state = "CLOSED", !.successCount = 0]
        ELSE IF b1.state = "HALF_OPEN"
        THEN [b1 EXCEPT !.halfOpenAttempts = b1.halfOpenAttempts + 1]
        ELSE b1

\* lines 681-692
onSuccess(b) ==
    LET b1 == [b EXCEPT !.failures = 0, !.halfOpenAttempts = 0,
                        !.successCount = b.successCount + 1]
    IN  IF b1.state = "HALF_OPEN" /\ b1.successCount >= 3
        THEN [b1 EXCEPT !.state = "CLOSED", !.successCount = 0]
        ELSE IF b1.state = "HALF_OPEN"
        THEN [b1 EXCEPT !.halfOpenAttempts = b1.halfOpenAttempts + 1]
        ELSE b1

\* onFailure that reopens only on the failure threshold
onFailure_ThresholdOnly(b, t) ==
    LET b1 == [b EXCEPT !.failures = b.failures + 1,
                        !.halfOpenAttempts = b.halfOpenAttempts + 1,
                        !.successCount = 0]
    IN  IF b1.failures >= failureThreshold
        THEN [b1 EXCEPT !.state = "OPEN", !.lastFailureTime = t]
        ELSE b1

\* onFailure that opens one failure late
onFailure_AboveThreshold(b, t) ==
    LET b1 == [b EXCEPT !.failures = b.failures + 1,
                        !.halfOpenAttempts = b.halfOpenAttempts + 1,
                        !.successCount = 0]
    IN  IF b1.state = "HALF_OPEN" \/ b1.failures > failureThreshold
        THEN [b1 EXCEPT !.state = "OPEN", !.lastFailureTime = t]
        ELSE b1

\* lines 694-703
onFailure(b, t) ==
    LET b1 == [b EXCEPT !.failures = b.failures + 1,
                        !.halfOpenAttempts = b.halfOpenAttempts + 1,
                        !.successCount = 0]
    IN  IF b1.state = "HALF_OPEN" \/ b1.failures >= failureThreshold
        THEN [b1 EXCEPT !.state = "OPEN", !.lastFailureTime = t]
        ELSE b1

\* History kept beside the breaker (not read by the code): the number of
\* calls that failed since the last success, when and in which state the
\* last failure happened, and, for the current HALF_OPEN period, the
\* successes seen and the operations invoked.
NoHistory ==
    [consecFailed |-> 0, lastFailedAt |-> 0, lastFailureIn |-> "none",
     hoSuccesses |-> 0, hoInvoked |-> 0]

HistExecute(h, b, g) ==
    LET entersHalfOpen == b.state = "OPEN" /\ g.breaker.state = "HALF_OPEN"
    IN  [h EXCEPT
           !.hoSuccesses = IF entersHalfOpen THEN 0 ELSE @,
           !.hoInvoked = IF entersHalfOpen THEN 1
                         ELSE IF g.admit /\ g.breaker.state = "HALF_OPEN"
                         THEN @ + 1 ELSE @]

HistSuccess(h, b) ==
    [h EXCEPT !.consecFailed = 0,
              !.hoSuccesses = IF b.state = "HALF_OPEN" THEN @ + 1 ELSE @]

HistFailure(h, b, t) ==
    [h EXCEPT !.consecFailed = @ + 1, !.lastFailedAt = t,
              !.lastFailureIn = b.state]

\* a call slot: the breaker it uses and, for a liraxRequest call, the
\* tenant whose credentials it was made with
BCallIdle == [pc |-> "idle", id |-> "default", tenant |-> ""]

\* call slots are interchangeable: a new call takes the lowest free slot
LowestIdle(c) ==
    /\ bcalls[c].pc = "idle"
    /\ \A d \in BCalls : d < c => bcalls[d].pc # "idle"

\* lines 654-672: execute(operation) is called; it throws, or invokes the
\* operation and awaits it
Execute(c, id) ==
    /\ LowestIdle(c)
    /\ LET g == Gate(breakers[id], now)
       IN  /\ breakers' = [breakers EXCEPT ![id] = g.breaker]
           /\ bcalls' = [bcalls EXCEPT ![c] =
                  [BCallIdle EXCEPT !.pc = IF g.admit THEN "running" ELSE "rejected",
                                    !.id = id]]
           /\ bhist' = [bhist EXCEPT ![id] = HistExecute(@, breakers[id], g)]
    /\ UNCHANGED now

\* lines 672-674: the operation resolved
OperationSucceeds(c) ==
    /\ bcalls[c].pc = "running"
    /\ LET b == breakers[bcalls[c].id]
       IN  /\ b.successCount < MaxCount
           /\ breakers' = [breakers EXCEPT ![bcalls[c].id] = onSuccess(b)]
           /\ bhist' = [bhist EXCEPT ![bcalls[c].id] = HistSuccess(@, b)]
    /\ bcalls' = [bcalls EXCEPT ![c].pc = "ok"]
    /\ UNCHANGED now

\* lines 675-677: the operation rejected
OperationFails(c) ==
    /\ bcalls[c].pc = "running"
    /\ LET b == breakers[bcalls[c].id]
       IN  /\ b.failures < MaxCount
           /\ b.halfOpenAttempts < MaxCount
           /\ breakers' = [breakers EXCEPT ![bcalls[c].id] = onFailure(b, now)]
           /\ bhist' = [bhist EXCEPT ![bcalls[c].id] = HistFailure(@, b, now)]
    /\ bcalls' = [bcalls EXCEPT ![c].pc = "failed"]
    /\ UNCHANGED now

\* The tenants of the process: each has a liraXApi credential of its own,
\* with the fields of LiraXCredentials (LiraXCore.ts lines 183-195).
Tenants == {"acme", "globex"}

TenantCredentials(tenant) ==
    [baseUrl |-> "https://" \o tenant \o ".lirax.example",
     token |-> "token-of-" \o tenant,
     sslVerify |-> TRUE]

\* line 409: credentials.id || 'default'
BreakerKey(credentials) ==
    IF "id" \in DOMAIN credentials /\ credentials.id # ""
    THEN credentials.id
    ELSE "default"

\* lines 406-413: a breaker-guarded liraxRequest made with the credentials
\* of `tenant`, up to the breaker's decision
TenantRequest(c, tenant) ==
    /\ LowestIdle(c)
    /\ LET id == BreakerKey(TenantCredentials(tenant))
           g == Gate(breakers[id], now)
       IN  /\ breakers' = [breakers EXCEPT ![id] = g.breaker]
           /\ bcalls' = [bcalls EXCEPT ![c] =
                  [pc |-> IF g.admit THEN "running" ELSE "rejected",
                   id |-> id, tenant |-> tenant]]
           /\ bhist' = [bhist EXCEPT ![id] = HistExecute(@, breakers[id], g)]
    /\ UNCHANGED now

\* the caller has the outcome; the slot is free for a later call
Return(c) ==
    /\ bcalls[c].pc \in {"ok", "failed", "rejected"}
    /\ bcalls' = [bcalls EXCEPT ![c] = BCallIdle]
    /\ UNCHANGED <<now, breakers, bhist>>

TickBreaker ==
    /\ Tick(BreakerStepMs, MaxBreakerTicks * BreakerStepMs)
    /\ UNCHANGED breakerVars

BreakerStart ==
    /\ breakers = [id \in BreakerIds |-> NewBreaker]
    /\ bhist = [id \in BreakerIds |-> NoHistory]


\* ============================================================ liraxRequest
\* Base URLs, by what the filter of lines 433-435 looks at.
UrlA == [name |-> "A", scheme |-> "https", length |-> 24, host |-> TRUE]
UrlB == [name |-> "B", scheme |-> "http", length |-> 23, host |-> TRUE]
UrlFtp == [name |-> "F", scheme |-> "ftp", length |-> 22, host |-> TRUE]
\* "https://" and nothing after it
UrlBare == [name |-> "H", scheme |-> "https", length |-> 8, host |-> FALSE]
NoUrl == [name |-> "", scheme |-> "", length |-> 0, host |-> FALSE]

Credentials ==
    [baseUrl : {UrlA, UrlFtp}, secondaryBaseUrl : {NoUrl, UrlB, UrlFtp, UrlBare},
     retries : {0, MaxRetries}]

\* ValidUrl letting every scheme through
ValidUrl_AnyScheme(u) == u.length > 0 /\ u.length > 5

\* lines 433-435: url && url.length > 5 && (http:// or https://)
ValidUrl(u) == u.length > 0 /\ u.length > 5 /\ u.scheme \in {"http", "https"}

\* lines 428-435
validUrls(creds) ==
    LET urls == IF creds.secondaryBaseUrl.length > 0
                THEN <<creds.baseUrl, creds.secondaryBaseUrl>>
                ELSE <<creds.baseUrl>>
    IN  SelectSeq(urls, ValidUrl)

\* line 453: Math.max(0, credentials.retries || DEFAULT_RETRY_ATTEMPTS) + 1
maxAttempts(creds) ==
    LET configured == IF creds.retries # 0 THEN creds.retries
                      ELSE DEFAULT_RETRY_ATTEMPTS
    IN  (IF configured > 0 THEN configured ELSE 0) + 1

\* An error object: code and httpCode as the transport sets them (""/0 when
\* absent) and the message as its words.
Err(code, httpCode, message) ==
    [code |-> code, httpCode |-> httpCode, message |-> message]

\* String.prototype.includes, on words
Includes(message, words) ==
    \E i \in 1 .. Len(message) :
        /\ i + Len(words) - 1 <= Len(message)
        /\ \A j \in 1 .. Len(words) : message[i + j - 1] = words[j]

\* isRetryableError with every 4xx status retried as well
isRetryableError_Retries4xx(error) ==
    \/ error.code \in {"ETIMEDOUT", "ECONNRESET", "ECONNREFUSED"}
    \/ error.httpCode # 0 /\ error.httpCode >= 400 /\ error.httpCode < 600
    \/ Includes(error.message, <<"modem", "busy">>)
    \/ Includes(error.message, <<"timeout">>)
    \/ Includes(error.message, <<"temporarily", "unavailable">>)

\* lines 342-370
isRetryableError(error) ==
    \/ error.code \in {"ETIMEDOUT", "ECONNRESET", "ECONNREFUSED"}
    \/ error.httpCode # 0 /\ error.httpCode >= 500 /\ error.httpCode < 600
    \/ error.httpCode = 429
    \/ Includes(error.message, <<"modem", "busy">>)
    \/ Includes(error.message, <<"timeout">>)
    \/ Includes(error.message, <<"temporarily", "unavailable">>)

\* line 458
AbortError == Err("", 0, <<"Request", "aborted", "by", "signal">>)

\* What context.helpers.httpRequest can do: resolve with a body (with or
\* without a top-level `error` field; `body` is the rest of it) or reject.  `class` names the case
\* in the terms of the specification and is not read by the code.
HttpOutcomes ==
    { [class |-> "ok", body |-> "sent", rejects |-> FALSE, errorField |-> <<>>,
       error |-> Err("", 0, <<>>)],
      [class |-> "ok", body |-> "queued", rejects |-> FALSE, errorField |-> <<>>,
       error |-> Err("", 0, <<>>)],
      [class |-> "vendorTransient", body |-> "busy", rejects |-> FALSE,
       errorField |-> <<"modem", "busy">>, error |-> Err("", 0, <<>>)],
      [class |-> "vendorOther", body |-> "refused", rejects |-> FALSE,
       errorField |-> <<"invalid", "phone">>, error |-> Err("", 0, <<>>)],
      [class |-> "network", body |-> "", rejects |-> TRUE,
       errorField |-> <<>>,
       error |-> Err("ECONNRESET", 0, <<"socket", "hang", "up">>)],
      [class |-> "network", body |-> "", rejects |-> TRUE,
       errorField |-> <<>>,
       error |-> Err("ETIMEDOUT", 0, <<"connect", "ETIMEDOUT">>)],
      [class |-> "5xx", body |-> "", rejects |-> TRUE,
       errorField |-> <<>>,
       error |-> Err("", 500, <<"Internal", "Server", "Error">>)],
      [class |-> "5xx", body |-> "", rejects |-> TRUE,
       errorField |-> <<>>,
       error |-> Err("", 503, <<"Service", "Unavailable">>)],
      [class |-> "429", body |-> "", rejects |-> TRUE,
       errorField |-> <<>>,
       error |-> Err("", 429, <<"Too", "Many", "Requests">>)],
      [class |-> "4xx", body |-> "", rejects |-> TRUE,
       errorField |-> <<>>,
       error |-> Err("", 400, <<"Bad", "Request">>)],
      [class |-> "4xx", body |-> "", rejects |-> TRUE,
       errorField |-> <<>>,
       error |-> Err("", 404, <<"Not", "Found">>)],
      [class |-> "otherCode", body |-> "", rejects |-> TRUE,
       errorField |-> <<>>,
       error |-> Err("ENOTFOUND", 0, <<"getaddrinfo", "ENOTFOUND">>)] }

\* lines 487-497: the error the attempt ends with
AttemptError(outcome) ==
    IF outcome.rejects THEN outcome.error
    ELSE Err("", 0, <<"LiraX", "API", "error:">> \o outcome.errorField)

\* the retryable classes of section 4.3 of the specification
TransientClasses == {"network", "5xx", "429", "vendorTransient"}

ReqIdle ==
    [pc |-> "idle", creds |-> [baseUrl |-> NoUrl, secondaryBaseUrl |-> NoUrl,
                                retries |-> 0],
     bypass |-> FALSE, aborted |-> FALSE, url |-> 0, attempt |-> 0,
     log |-> <<>>, received |-> <<>>, response |-> <<>>,
     allErrors |-> <<>>, caught |-> <<>>, thrown |-> "none",
     disableRetry |-> FALSE]

RECURSIVE StartAttempt(_)
RECURSIVE AfterError(_, _)

\* StartAttempt without the check of the signal of lines 457-459
StartAttempt_IgnoresSignal(r) ==
    [r EXCEPT !.pc = "http",
              !.log = Append(@, [url |-> validUrls(r.creds)[r.url].name,
                                 kind |-> "pending"])]

\* lines 455-487: the top of the while loop, up to `await httpRequest`
StartAttempt(r) ==
    IF r.aborted
    THEN AfterError(r, AbortError)
    ELSE [r EXCEPT !.pc = "http",
                   !.log = Append(@, [url |-> validUrls(r.creds)[r.url].name,
                                      kind |-> "pending"])]

\* An element of allErrors: the error object is named by the HTTP attempt
\* that raised it, 0 for the error of line 458, raised before a request is
\* sent; `caught` is, in full, the last element of allErrors when the loops
\* are left.
Raised(r, error) ==
    [attempt |-> IF error = AbortError THEN 0 ELSE Len(r.log)]

\* lines 495-513 and, past the last attempt, 451 and 517: the catch block
AfterError(r, error) ==
    LET r1 == [r EXCEPT !.allErrors = Append(@, Raised(r, error))]
    IN  IF ~isRetryableError(error) \/ r1.attempt = maxAttempts(r1.creds) - 1
        THEN IF r1.url = Len(validUrls(r1.creds))
             THEN [r1 EXCEPT !.pc = "failed", !.thrown = "Failover",
                             !.caught = <<error>>]
             ELSE StartAttempt([r1 EXCEPT !.url = @ + 1, !.attempt = 0])
        ELSE [r1 EXCEPT !.pc = "backoff"]

\* AfterResponse returning every body the transport resolves with, the
\* ones with an `error` field included
AfterResponse_ReturnsErrorBody(r, outcome) ==
    IF ~outcome.rejects
    THEN [r EXCEPT !.pc = "returned", !.received = Append(@, outcome.body),
                   !.response = <<outcome.body>>]
    ELSE AfterError(r, AttemptError(outcome))

\* AfterResponse going on to the next endpoint after a success and
\* returning the last response
AfterResponse_TriesNextEndpoint(r, outcome) ==
    IF ~outcome.rejects /\ outcome.errorField = <<>>
    THEN IF r.url < Len(validUrls(r.creds))
         THEN StartAttempt([r EXCEPT !.received = Append(@, outcome.body),
                                     !.url = @ + 1, !.attempt = 0])
         ELSE [r EXCEPT !.pc = "returned", !.received = Append(@, outcome.body),
                        !.response = <<outcome.body>>]
    ELSE AfterError(r, AttemptError(outcome))

\* lines 487-497: httpRequest has settled with `outcome`; `received` has
\* the bodies of the responses without an `error` field so far
AfterResponse(r, outcome) ==
    IF ~outcome.rejects /\ outcome.errorField = <<>>
    THEN [r EXCEPT !.pc = "returned", !.received = Append(@, outcome.body),
                   !.response = <<outcome.body>>]
    ELSE AfterError(r, AttemptError(outcome))

\* lines 427-451: executeRequestWithRetry up to its first await
executeRequestWithRetry(r) ==
    IF Len(validUrls(r.creds)) = 0
    THEN [r EXCEPT !.pc = "failed", !.thrown = "NoValidUrls"]
    ELSE StartAttempt([r EXCEPT !.url = 1, !.attempt = 0])

\* Settle with the breaker told of the outcome of bypassing calls as well
Settle_CountsBypassed(r) ==
    LET id == "default"
    IN  IF r.pc \notin {"returned", "failed"}
        THEN UNCHANGED <<breakers, bhist>>
        ELSE IF r.pc = "returned"
        THEN /\ breakers' = [breakers EXCEPT ![id] = onSuccess(@)]
             /\ bhist' = [bhist EXCEPT ![id] = HistSuccess(@, breakers[id])]
        ELSE /\ breakers' = [breakers EXCEPT ![id] = onFailure(@, now)]
             /\ bhist' = [bhist EXCEPT ![id] = HistFailure(@, breakers[id], now)]

\* lines 672-677 seen from liraxRequest: the guarded operation has settled
Settle(r) ==
    LET id == "default"
    IN  IF r.bypass \/ r.pc \notin {"returned", "failed"}
        THEN UNCHANGED <<breakers, bhist>>
        ELSE IF r.pc = "returned"
        THEN /\ breakers' = [breakers EXCEPT ![id] = onSuccess(@)]
             /\ bhist' = [bhist EXCEPT ![id] = HistSuccess(@, breakers[id])]
        ELSE /\ breakers' = [breakers EXCEPT ![id] = onFailure(@, now)]
             /\ bhist' = [bhist EXCEPT ![id] = HistFailure(@, breakers[id], now)]

\* the breaker's counters are below the cap of the model
BelowCap(b) ==
    /\ b.failures < MaxCount
    /\ b.halfOpenAttempts < MaxCount
    /\ b.successCount < MaxCount

\* lines 372-425: liraxRequest(context, credentials, payload, options) is
\* called without a throttleKey;
\* `disableRetry` is the option of that name in the object the caller
\* passes, which the destructuring of lines 386-394 does not take
LiraxRequestWith(creds, bypass, aborted, disableRetry) ==
    /\ req.pc = "idle"
    /\ BelowCap(breakers["default"])
    /\ LET r0 == [ReqIdle EXCEPT !.creds = creds, !.bypass = bypass,
                                 !.aborted = aborted,
                                 !.disableRetry = disableRetry]
           g == Gate(breakers["default"], now)
       IN  IF ~bypass /\ ~g.admit
           THEN /\ req' = [r0 EXCEPT !.pc = "failed",
                              !.thrown = IF breakers["default"].state = "OPEN"
                                         THEN "CircuitOpen" ELSE "HalfOpenExceeded"]
                /\ breakers' = [breakers EXCEPT !["default"] = g.breaker]
                /\ bhist' = [bhist EXCEPT !["default"] =
                                 HistExecute(@, breakers["default"], g)]
           ELSE LET r1 == executeRequestWithRetry(r0)
                IN  /\ req' = r1
                    /\ IF bypass
                       THEN UNCHANGED <<breakers, bhist>>
                       ELSE LET b1 == g.breaker
                                h1 == HistExecute(bhist["default"], breakers["default"], g)
                            IN  IF r1.pc = "failed"
                                THEN /\ breakers' = [breakers EXCEPT !["default"] =
                                                        onFailure(b1, now)]
                                     /\ bhist' = [bhist EXCEPT !["default"] =
                                                        HistFailure(h1, b1, now)]
                                ELSE /\ breakers' = [breakers EXCEPT !["default"] = b1]
                                     /\ bhist' = [bhist EXCEPT !["default"] = h1]
    /\ UNCHANGED now

\* liraxRequest called without a disableRetry option
LiraxRequest(creds, bypass, aborted) == LiraxRequestWith(creds, bypass, aborted, FALSE)

\* lines 487-513: httpRequest settles
HttpResponds(outcome) ==
    /\ req.pc = "http"
    /\ LET kind == IF outcome.class = "ok" THEN "ok"
                   ELSE IF outcome.class \in TransientClasses THEN "transient"
                   ELSE "permanent"
           r1 == [req EXCEPT !.log[Len(req.log)].kind = kind]
           r2 == AfterResponse(r1, outcome)
       IN  /\ req' = r2
           /\ Settle(r2)
    /\ UNCHANGED now

\* lines 509-512, 455: the backoff sleep is over
BackoffElapsed ==
    /\ req.pc = "backoff"
    /\ LET r1 == StartAttempt([req EXCEPT !.attempt = @ + 1])
       IN  /\ req' = r1
           /\ Settle(r1)
    /\ UNCHANGED now

\* the caller's AbortSignal is aborted while the call is suspended
Abort ==
    /\ req.pc \in {"http", "backoff"}
    /\ ~req.aborted
    /\ req' = [req EXCEPT !.aborted = TRUE]
    /\ UNCHANGED <<now, breakers, bhist>>

\* LiraXErrorHandler.  A NodeApiError is a record of its class name, its
\* cause (the error it was constructed around) and its description; the
\* wording of its message is left out.

\* LiraXErrorHandler.ts lines 151-194: the details that reach the
\* description; every other detail is dropped
PrintedDetails ==
    {"operation", "resource", "httpCode", "errorCode", "timestamp",
     "requestPayload", "responseBody"}

formatErrorDescription(details) ==
    [f \in (DOMAIN details) \cap PrintedDetails |-> details[f]]

\* LiraXErrorHandler.ts lines 12-55
handle(error) ==
    LET details ==
            [operation |-> "cmd", timestamp |-> now]
            @@ (IF "httpCode" \in DOMAIN error /\ error.httpCode # 0
                THEN [httpCode |-> error.httpCode] ELSE <<>>)
            @@ (IF "code" \in DOMAIN error /\ error.code # ""
                THEN [errorCode |-> error.code] ELSE <<>>)
    IN  [name |-> "NodeApiError", cause |-> <<error>>,
         description |-> formatErrorDescription(details)]

\* LiraXErrorHandler.ts lines 231-248
handleFailoverError(errors) ==
    LET details ==
            [operation |-> "cmd", timestamp |-> now,
             failoverAttempts |-> Len(errors), errors |-> errors]
    IN  [name |-> "NodeApiError", cause |-> <<errors[Len(errors)]>>,
         description |-> formatErrorDescription(details)]

\* lines 661, 668, 438-446, 517-522: what the breaker or
\* executeRequestWithRetry throws
Thrown(r) ==
    IF r.thrown = "CircuitOpen"
    THEN Err("", 0, <<"Circuit", "breaker", "is", "OPEN">>)
    ELSE IF r.thrown = "HalfOpenExceeded"
    THEN Err("", 0, <<"Circuit", "breaker", "half-open", "attempts", "exceeded">>)
    ELSE IF r.thrown = "NoValidUrls"
    THEN handle(Err("", 0, <<"No", "valid", "base", "URLs", "configured">>))
    ELSE handleFailoverError(r.allErrors)

\* lines 406-425: the error a failed call surfaces to its caller; with the
\* breaker in use, whatever circuitBreaker.execute throws is wrapped
Surfaced(r) == IF r.bypass THEN Thrown(r) ELSE handle(Thrown(r))

\* the caller has the outcome of the call
RequestReturns ==
    /\ req.pc \in {"returned", "failed"}
    /\ req' = ReqIdle
    /\ UNCHANGED <<now, breakers, bhist>>

TickRequest ==
    /\ Tick(BreakerStepMs, MaxRequestTicks * BreakerStepMs)
    /\ UNCHANGED <<breakers, bhist, req>>


\* ------------------------------------------------------------ retry delay
\* credentials.backoffBaseMs
BackoffBases == {0, 1, 500, 1000, 2000, 4000, 30000}

\* Math.random(), in thousandths: a number of [0, 1)
Randoms == {0, 250, 500, 999}

RECURSIVE Pow2(_)
Pow2(n) == IF n = 0 THEN 1 ELSE 2 * Pow2(n - 1)

Min(a, b) == IF a <= b THEN a ELSE b

\* part_002 lines 330-340; the delay in thousandths of a millisecond
calculateRetryDelay(attempt, backoffBaseMs, random) ==
    LET baseDelay == IF backoffBaseMs # 0 THEN backoffBaseMs
                     ELSE DEFAULT_BACKOFF_BASE_MS
        expDelay == baseDelay * Pow2(attempt)
        jitteredExp == expDelay * (800 + (random * 400) \div 1000)
    IN  Min(jitteredExp, MAX_RETRY_DELAY_MS * 1000)

NoBackoff == [backoffBaseMs |-> 0, attempt |-> 0, delay |-> <<>>]

BackoffStart == backoff = NoBackoff

\* part_002 lines 503-508: a retryable error, attempts remain; the delay
\* is calculated and the sleep begins
RetryableError(random) ==
    /\ backoff.delay = <<>>
    /\ backoff.attempt < MaxBackoffRetries
    /\ backoff' = [backoff EXCEPT
           !.delay = <<calculateRetryDelay(backoff.attempt, backoff.backoffBaseMs,
                                           random)>>]
    /\ UNCHANGED now

\* part_002 lines 509-512: the sleep is over, the next attempt begins
Slept ==
    /\ backoff.delay # <<>>
    /\ backoff' = [backoff EXCEPT !.delay = <<>>, !.attempt = @ + 1]
    /\ UNCHANGED now

\* ------------------------------------------------------------ payloads
\* Field values are strings, written as sequences of characters.
Token == <<"s", "3", "c", "r", "3", "t">>
Phone == <<"3", "8", "0", "5", "0", "1", "2", "3">>
ShortPhone == <<"1", "0", "1">>
Email == <<"a", "@", "b", ".", "c">>
Address == <<"1", "0", ".", "0", ".", "0", ".", "7">>

FieldValues ==
    [token |-> {Token}, phone |-> {Phone, ShortPhone}, email |-> {Email},
     IP |-> {Address}]

\* the payloads of the operations: any of the fields, each with one of
\* its values
Payloads ==
    {payload \in UNION {[fields -> UNION {FieldValues[f] : f \in DOMAIN FieldValues}] :
                           fields \in SUBSET DOMAIN FieldValues} :
        \A f \in DOMAIN payload : payload[f] \in FieldValues[f]}

\* LiraXErrorHandler.ts lines 134-135
sensitiveFields ==
    {"token", "phone", "ani", "dnis", "to", "to1", "to2", "provider", "ext",
     "newext", "client", "from_LiraX_token"}

\* lines 139-144: all but the last four characters starred, or four stars
Masked(value) ==
    IF Len(value) > 4
    THEN [i \in 1 .. Len(value) |-> IF i <= Len(value) - 4 THEN "*" ELSE value[i]]
    ELSE <<"*", "*", "*", "*">>

\* LiraXErrorHandler.ts lines 130-149
maskSensitiveData(payload) ==
    [f \in DOMAIN payload |->
        IF f \in sensitiveFields THEN Masked(payload[f]) ELSE payload[f]]

\* lines 14-17: the copy of the payload without its token
sanitizedPayload(payload) == [f \in DOMAIN payload \ {"token"} |-> payload[f]]

\* lines 12-55: handle with a payload in its context; the description has
\* the masked payload when any field is left
handleWithPayload(error, payload) ==
    [handle(error) EXCEPT
        !.description =
            IF DOMAIN sanitizedPayload(payload) # {}
            THEN @ @@ formatErrorDescription(
                        [requestPayload |-> maskSensitiveData(sanitizedPayload(payload))])
            ELSE @]

\* the errors given to handle
HandledErrors ==
    {Err("", 0, <<"Circuit", "breaker", "is", "OPEN">>),
     Err("ETIMEDOUT", 0, <<"timeout">>),
     Err("", 400, <<"Bad", "Request">>),
     Err("", 0, <<"No", "valid", "base", "URLs", "configured">>)}

NotHandled == [payload |-> <<>>, error |-> <<>>, surfaced |-> <<>>]

HandlerStart == handled = NotHandled

\* part_002 lines 414-421: the catch around circuitBreaker.execute
Handle ==
    /\ handled.error # <<>>
    /\ handled.surfaced = <<>>
    /\ handled' = [handled EXCEPT
           !.surfaced = <<handleWithPayload(handled.error[1], handled.payload)>>]
    /\ UNCHANGED now

\* ============================================================ cache providers
\* Keys, prefixes and file names are strings, written as sequences of
\* characters; cached values are JSON values.
CacheKeys == {<<"k">>, <<"e", ":", "k">>}
KeyPrefixes == {<<"t">>, <<"t", ":", "e">>, <<"t", "_", "e">>}
CacheValues == {"v1", "v2"}
\* the ttlSeconds argument of set, <<>> when it is left out
TtlArgs == {<<>>, <<0>>, <<1>>}
\* options.ttl, <<>> when it is left out
OptionTtls == {<<>>, <<0>>}
ProviderTypes == {"memory", "file", "redis"}
\* what the factory and the provider meet: a store that answers every
\* operation, one that answers some operations and not others, a module
\* that cannot be required, a constructor that throws, or a store that
\* cannot be reached (a directory that cannot be created, a server that
\* does not answer)
Environments == {"ok", "intermittent", "missingDependency", "initError", "unreachable"}

\* LiraXErrorHandler.ts line 270: options.ttl ?? 3600; FileCache.ts line 19
\* and LiraXErrorHandler.ts line 392: options.ttl || 3600
defaultTTL(variant, ttl) ==
    IF ttl = <<>> THEN PROVIDER_DEFAULT_TTL
    ELSE IF variant # "memory" /\ ttl[1] = 0 THEN PROVIDER_DEFAULT_TTL
    ELSE ttl[1]

\* CacheFactory.create falling back only when a module is missing
create_FallsBackOnMissingModuleOnly(providerType, env) ==
    IF providerType = "memory" THEN "memory"
    ELSE IF env = "missingDependency" THEN "memory"
    ELSE providerType

\* LiraXErrorHandler.ts lines 324-362: CacheFactory.create; the variant of
\* the provider it returns
create(providerType, env) ==
    IF providerType = "memory" THEN "memory"
    ELSE IF env \in {"missingDependency", "initError"} THEN "memory"
    ELSE providerType

NewProvider(id, providerType, env, prefix, ttl) ==
    [id |-> id, variant |-> create(providerType, env), keyPrefix |-> prefix,
     defaultTTL |-> defaultTTL(create(providerType, env), ttl)]

\* the characters of [a-zA-Z0-9_-] among those in use
SafeChars == {"t", "e", "k", "_", "-"}

\* FileCache.ts line 41: replace(/[^a-zA-Z0-9_-]/g, '_')
Sanitise(s) == [i \in 1 .. Len(s) |-> IF s[i] \in SafeChars THEN s[i] ELSE "_"]

\* FileCache.ts lines 39-43
makeFilePath(prefix, key) == Sanitise(prefix \o <<"_">> \o key) \o <<".json">>

\* LiraXErrorHandler.ts lines 274-276 and 444-446
PrefixedKey(prefix, key) == prefix \o <<":">> \o key

\* Where provider p keeps `key`: in its own Map (in-process) or, by name, in
\* the directory or the key-value service that the providers share.
Phys(p, key) ==
    [owner |-> IF p.variant = "memory" THEN p.id ELSE "shared",
     name |-> IF p.variant = "file" THEN makeFilePath(p.keyPrefix, key)
              ELSE PrefixedKey(p.keyPrefix, key)]

StartsWith(s, prefix) ==
    /\ Len(prefix) <= Len(s)
    /\ \A i \in 1 .. Len(prefix) : s[i] = prefix[i]

EndsWith(s, suffix) ==
    /\ Len(suffix) <= Len(s)
    /\ \A i \in 1 .. Len(suffix) : s[Len(s) - Len(suffix) + i] = suffix[i]

\* JSON.stringify and JSON.parse of a JSON value
Stringify(value) == <<"json", value>>
Parse(text) == text[2]

\* An entry is <<>> when absent and otherwise <<[data, expires]>>; expires
\* is 0 for `expiresAt: null` and for a key set without SETEX.
Hit(stats) == [stats EXCEPT !.hits = @ + 1]
Miss(stats) == [stats EXCEPT !.misses = @ + 1]

\* MemoryCacheProvider.get dropping an entry at its expiry time
MemoryGet_ExpiresAtDeadline(p, store, stats, key, t) ==
    LET entry == store[Phys(p, key)]
    IN  IF entry = <<>>
        THEN [store |-> store, stats |-> Miss(stats), value |-> <<>>, threw |-> FALSE]
        ELSE IF t >= entry[1].expires
        THEN [store |-> [store EXCEPT ![Phys(p, key)] = <<>>],
              stats |-> Miss(stats), value |-> <<>>, threw |-> FALSE]
        ELSE [store |-> store, stats |-> Hit(stats), value |-> <<entry[1].data>>,
              threw |-> FALSE]

\* LiraXErrorHandler.ts lines 278-293
MemoryGet(p, store, stats, key, t) ==
    LET entry == store[Phys(p, key)]
    IN  IF entry = <<>>
        THEN [store |-> store, stats |-> Miss(stats), value |-> <<>>, threw |-> FALSE]
        ELSE IF t > entry[1].expires
        THEN [store |-> [store EXCEPT ![Phys(p, key)] = <<>>],
              stats |-> Miss(stats), value |-> <<>>, threw |-> FALSE]
        ELSE [store |-> store, stats |-> Hit(stats), value |-> <<entry[1].data>>,
              threw |-> FALSE]

\* FileCache.ts lines 45-68; `up`: the file system answers
FileGet(p, store, stats, key, t, up) ==
    LET entry == store[Phys(p, key)]
    IN  IF ~up \/ entry = <<>>
        THEN [store |-> store, stats |-> Miss(stats), value |-> <<>>, threw |-> FALSE]
        ELSE IF entry[1].expires # 0 /\ t > entry[1].expires
        THEN [store |-> [store EXCEPT ![Phys(p, key)] = <<>>],
              stats |-> Miss(stats), value |-> <<>>, threw |-> FALSE]
        ELSE [store |-> store, stats |-> Hit(stats),
              value |-> <<Parse(entry[1].data)>>, threw |-> FALSE]

\* RedisCacheProvider.get rethrowing what the client throws
RedisGet_Propagates(p, store, stats, key, t, up) ==
    LET entry == store[Phys(p, key)]
    IN  IF ~up
        THEN [store |-> store, stats |-> stats, value |-> <<>>, threw |-> TRUE]
        ELSE IF entry = <<>>
        THEN [store |-> store, stats |-> Miss(stats), value |-> <<>>, threw |-> FALSE]
        ELSE IF entry[1].expires # 0 /\ t > entry[1].expires
        THEN [store |-> [store EXCEPT ![Phys(p, key)] = <<>>],
              stats |-> Miss(stats), value |-> <<>>, threw |-> FALSE]
        ELSE [store |-> store, stats |-> Hit(stats),
              value |-> <<Parse(entry[1].data)>>, threw |-> FALSE]

\* LiraXErrorHandler.ts lines 459-478; `up`: the server answers.  The
\* server no longer has a key whose time to live has passed.
RedisGet(p, store, stats, key, t, up) ==
    LET entry == store[Phys(p, key)]
    IN  IF ~up \/ entry = <<>>
        THEN [store |-> store, stats |-> Miss(stats), value |-> <<>>, threw |-> FALSE]
        ELSE IF entry[1].expires # 0 /\ t > entry[1].expires
        THEN [store |-> [store EXCEPT ![Phys(p, key)] = <<>>],
              stats |-> Miss(stats), value |-> <<>>, threw |-> FALSE]
        ELSE [store |-> store, stats |-> Hit(stats),
              value |-> <<Parse(entry[1].data)>>, threw |-> FALSE]

\* `ttlSeconds ?? this.defaultTTL`
Ttl(p, ttlSeconds) == IF ttlSeconds = <<>> THEN p.defaultTTL ELSE ttlSeconds[1]

\* MemoryCacheProvider.set without the `ttl > 0` test
MemorySet_ZeroExpiresNow(p, store, key, value, ttlSeconds, t) ==
    LET ttl == Ttl(p, ttlSeconds)
    IN  [store EXCEPT ![Phys(p, key)] =
            <<[data |-> value, expires |-> t + ttl * 1000]>>]

\* LiraXErrorHandler.ts lines 295-299
MemorySet(p, store, key, value, ttlSeconds, t) ==
    LET ttl == Ttl(p, ttlSeconds)
        expires == IF ttl > 0 THEN t + ttl * 1000 ELSE MAX_SAFE_INTEGER
    IN  [store EXCEPT ![Phys(p, key)] = <<[data |-> value, expires |-> expires]>>]

\* FileCache.ts lines 70-84
FileSet(p, store, key, value, ttlSeconds, t, up) ==
    LET ttl == Ttl(p, ttlSeconds)
        expiresAt == IF ttl > 0 THEN t + ttl * 1000 ELSE 0
    IN  IF ~up THEN store
        ELSE [store EXCEPT ![Phys(p, key)] =
                 <<[data |-> Stringify(value), expires |-> expiresAt]>>]

\* LiraXErrorHandler.ts lines 480-496
RedisSet(p, store, key, value, ttlSeconds, t, up) ==
    LET ttl == Ttl(p, ttlSeconds)
    IN  IF ~up THEN store
        ELSE [store EXCEPT ![Phys(p, key)] =
                 <<[data |-> Stringify(value),
                    expires |-> IF ttl > 0 THEN t + ttl * 1000 ELSE 0]>>]

\* LiraXErrorHandler.ts lines 301-303 and 498-505, FileCache.ts lines 86-96
ProviderDelete(p, store, key, up) ==
    IF p.variant # "memory" /\ ~up THEN store
    ELSE [store EXCEPT ![Phys(p, key)] = <<>>]

\* LiraXErrorHandler.ts lines 305-308 and 507-524, FileCache.ts lines 98-111:
\* the names that clear() removes
Cleared(p, name) ==
    IF p.variant = "memory" THEN name.owner = p.id
    ELSE IF p.variant = "file"
    THEN /\ StartsWith(name.name, p.keyPrefix \o <<"_">>)
         /\ EndsWith(name.name, <<".json">>)
    ELSE StartsWith(name.name, p.keyPrefix \o <<":">>)

ProviderClear(p, store, up) ==
    IF p.variant # "memory" /\ ~up THEN store
    ELSE [name \in DOMAIN store |-> IF Cleared(p, name) THEN <<>> ELSE store[name]]

ProviderGet(p, store, stats, key, t, up) ==
    IF p.variant = "memory" THEN MemoryGet(p, store, stats, key, t)
    ELSE IF p.variant = "file" THEN FileGet(p, store, stats, key, t, up)
    ELSE RedisGet(p, store, stats, key, t, up)

ProviderSet(p, store, key, value, ttlSeconds, t, up) ==
    IF p.variant = "memory" THEN MemorySet(p, store, key, value, ttlSeconds, t)
    ELSE IF p.variant = "file" THEN FileSet(p, store, key, value, ttlSeconds, t, up)
    ELSE RedisSet(p, store, key, value, ttlSeconds, t, up)

NoStats == [hits |-> 0, misses |-> 0]
NoOp == [op |-> "none", p |-> "", key |-> <<>>, value |-> <<>>, threw |-> FALSE,
         answered |-> TRUE]

\* The providers of the behaviour, the store behind them, and what the
\* callers have done: `hist` has, per provider and key, the latest set that
\* reached the store and was not deleted or cleared since; `faulted` tells
\* that an operation met a store that did not answer.
NewCache(providerType, env, providers, keys) ==
    [requested |-> providerType, env |-> env, providers |-> providers,
     store |-> [name \in {Phys(providers[id], key) :
                              id \in DOMAIN providers, key \in keys} |-> <<>>],
     stats |-> [id \in DOMAIN providers |-> NoStats],
     hist |-> [id \in DOMAIN providers |-> [key \in keys |-> <<>>]],
     faulted |-> FALSE, last |-> NoOp, ops |-> 0, ticks |-> 0]

CacheOff == NewCache("memory", "ok", <<>>, {})

CacheStart == cache = CacheOff

\* whether the store answers an operation
Ups ==
    IF \A id \in DOMAIN cache.providers : cache.providers[id].variant = "memory"
    THEN {TRUE}
    ELSE IF cache.env = "unreachable" THEN {FALSE}
    ELSE IF cache.env = "ok" THEN {TRUE}
    ELSE BOOLEAN

Answers(p, up) == p.variant = "memory" \/ up

Get(id, key, up) ==
    /\ cache.ops < MaxCacheOps
    /\ key \in DOMAIN cache.hist[id]
    /\ up \in Ups
    /\ LET p == cache.providers[id]
           g == ProviderGet(p, cache.store, cache.stats[id], key, now, up)
       IN  cache' = [cache EXCEPT
               !.store = g.store,
               !.stats[id] = g.stats,
               !.faulted = @ \/ ~Answers(p, up),
               !.last = [op |-> "get", p |-> id, key |-> key, value |-> g.value,
                         threw |-> g.threw, answered |-> Answers(p, up)],
               !.ops = @ + 1]
    /\ UNCHANGED now

Set(id, key, value, ttlSeconds, up) ==
    /\ cache.ops < MaxCacheOps
    /\ key \in DOMAIN cache.hist[id]
    /\ up \in Ups
    /\ LET p == cache.providers[id]
       IN  cache' = [cache EXCEPT
               !.store = ProviderSet(p, @, key, value, ttlSeconds, now, up),
               !.hist[id][key] = IF Answers(p, up)
                                 THEN <<[value |-> value, at |-> now,
                                         ttlSeconds |-> ttlSeconds]>>
                                 ELSE @,
               !.faulted = @ \/ ~Answers(p, up),
               !.last = [op |-> "set", p |-> id, key |-> key, value |-> <<>>,
                         threw |-> FALSE, answered |-> Answers(p, up)],
               !.ops = @ + 1]
    /\ UNCHANGED now

Delete(id, key, up) ==
    /\ cache.ops < MaxCacheOps
    /\ key \in DOMAIN cache.hist[id]
    /\ up \in Ups
    /\ LET p == cache.providers[id]
       IN  cache' = [cache EXCEPT
               !.store = ProviderDelete(p, @, key, up),
               !.hist[id][key] = IF Answers(p, up) THEN <<>> ELSE @,
               !.faulted = @ \/ ~Answers(p, up),
               !.last = [op |-> "delete", p |-> id, key |-> key, value |-> <<>>,
                         threw |-> FALSE, answered |-> Answers(p, up)],
               !.ops = @ + 1]
    /\ UNCHANGED now

Clear(id, up) ==
    /\ cache.ops < MaxCacheOps
    /\ up \in Ups
    /\ LET p == cache.providers[id]
       IN  cache' = [cache EXCEPT
               !.store = ProviderClear(p, @, up),
               !.stats[id] = IF p.variant = "memory" THEN NoStats ELSE @,
               !.hist[id] = IF Answers(p, up) THEN [key \in DOMAIN @ |-> <<>>] ELSE @,
               !.faulted = @ \/ ~Answers(p, up),
               !.last = [op |-> "clear", p |-> id, key |-> <<>>, value |-> <<>>,
                         threw |-> FALSE, answered |-> Answers(p, up)],
               !.ops = @ + 1]
    /\ UNCHANGED now

\* time passes: by a second or by the default time to live
TickCache(step) ==
    /\ cache.ticks < MaxCacheTicks
    /\ now' = now + step
    /\ cache' = [cache EXCEPT !.ticks = @ + 1]

\* ============================================================ LiraXCore
\* Two LiraXCore instances, each constructed with the context of one node
\* execution.
Cores == {"execution1", "execution2"}
\* the call slots of the behaviour
ECalls == DOMAIN ecalls

\* What liraxRequest can resolve with: the parsed response body, an object
\* or a falsy value (empty body).
Responses ==
    { [body |-> "r1", truthy |-> TRUE],
      [body |-> "r2", truthy |-> TRUE],
      [body |-> "", truthy |-> FALSE] }

\* An optional number: <<>> when the caller leaves it out.
Default(option, default) == IF option = <<>> THEN default ELSE option[1]

\* the options of executeOperation; "" is a key left out
Options ==
    [idempotencyKey : {"", "k1"}, idempotencyTTL : {<<>>, <<1>>},
     useCache : BOOLEAN, cacheKey : {"", "users"}, cacheTTL : {<<>>, <<1>>}]

IdempotencyKeys == {"k1"}

\* `idempotency:${idempotencyKey}`
IdemKey(k) == "idempotency:" \o k

\* MemoryCacheProvider.makeKey with the default prefix
keyPrefix == "lirax"
makeKey(key) == keyPrefix \o ":" \o key

StoreKeys == {makeKey("users")} \cup {makeKey(IdemKey(k)) : k \in IdempotencyKeys}

NoCacheEntry == [data |-> <<>>, expires |-> 0]

\* LiraXCore.ts lines 17-67: the LiraXCore was constructed with the
\* networked provider, and its server cannot be reached
StoreDown ==
    /\ cache.providers # <<>>
    /\ cache.providers[1].variant = "redis"
    /\ cache.env = "unreachable"

\* this.cache.get of a LiraXCore: the store after the read, the value
\* read, <<>> for null, and whether the promise rejects.  It is
\* MemoryCacheProvider.get, or RedisCacheProvider.get on a server that does
\* not answer.
CacheGet(store, key, t) ==
    LET entry == store[makeKey(key)]
    IN  IF StoreDown
        THEN LET g == RedisGet(cache.providers[1], cache.store, cache.stats[1],
                               <<key>>, t, FALSE)
             IN  [store |-> store, value |-> g.value, threw |-> g.threw]
        ELSE IF entry = NoCacheEntry
        THEN [store |-> store, value |-> <<>>, threw |-> FALSE]
        ELSE IF t > entry.expires
        THEN [store |-> [store EXCEPT ![makeKey(key)] = NoCacheEntry],
              value |-> <<>>, threw |-> FALSE]
        ELSE [store |-> store, value |-> entry.data, threw |-> FALSE]

\* this.cache.set with an explicit ttlSeconds: MemoryCacheProvider.set, or
\* RedisCacheProvider.set on a server that does not answer, which logs the
\* error and stores nothing
CacheSet(store, key, value, ttlSeconds, t) ==
    LET expires == IF ttlSeconds > 0 THEN t + ttlSeconds * 1000
                   ELSE MAX_SAFE_INTEGER
    IN  IF StoreDown THEN store
        ELSE [store EXCEPT ![makeKey(key)] = [data |-> <<value>>, expires |-> expires]]

\* `if (cached)`
Truthy(value) == value # <<>> /\ value[1].truthy

NoOptions ==
    [idempotencyKey |-> "", idempotencyTTL |-> <<>>, useCache |-> FALSE,
     cacheKey |-> "", cacheTTL |-> <<>>]

\* storeError: the lookup that the call awaits has rejected
ECallIdle ==
    [pc |-> "idle", core |-> "execution1", opts |-> NoOptions,
     cached |-> <<>>, result |-> <<>>, net |-> 0, setAt |-> 0, prior |-> <<>>,
     storeError |-> FALSE]

\* lines 84, 104: useCache && cacheKey
UsesCache(call) == call.opts.useCache /\ call.opts.cacheKey # ""

\* the first successful call with key k, if a call made at t is within its
\* idempotencyTTL
Prior(k, t) ==
    IF k # "" /\ ehist[k] # <<>> /\ t <= ehist[k][1].at + ehist[k][1].ttl * 1000
    THEN <<ehist[k][1].data>>
    ELSE <<>>

\* Each step of executeOperation below yields the call and the store of
\* its LiraXCore as the step leaves them.

\* RunOperation reserving the idempotency key, with a marker, before it
\* validates and calls the transport
RunOperation_ReservesKey(call, store, valid) ==
    [call |-> IF valid
              THEN [call EXCEPT !.pc = "network", !.net = @ + 1, !.cached = <<>>]
              ELSE [call EXCEPT !.pc = "failed", !.cached = <<>>],
     store |-> IF call.opts.idempotencyKey # ""
               THEN CacheSet(store, IdemKey(call.opts.idempotencyKey),
                             [body |-> "pending", truthy |-> TRUE],
                             Default(call.opts.idempotencyTTL, DEFAULT_IDEMPOTENCY_TTL), now)
               ELSE store]

\* lines 98-102: validation, which params pass or fail, and the call of
\* liraxRequest
RunOperation(call, store, valid) ==
    [call |-> IF valid
              THEN [call EXCEPT !.pc = "network", !.net = @ + 1, !.cached = <<>>]
              ELSE [call EXCEPT !.pc = "failed", !.cached = <<>>],
     store |-> store]

\* IdempotencyCheck as an atomic test-and-set: a lookup that misses
\* leaves a marker under the key for the calls that follow
IdempotencyCheck_Reserves(call, store, t, valid) ==
    IF call.opts.idempotencyKey # ""
    THEN LET g == CacheGet(store, IdemKey(call.opts.idempotencyKey), t)
         IN  [call |-> [call EXCEPT !.pc = "idemGet", !.cached = g.value,
                                    !.storeError = g.threw],
              store |-> IF g.value = <<>>
                        THEN CacheSet(g.store, IdemKey(call.opts.idempotencyKey),
                                      [body |-> "pending", truthy |-> TRUE],
                                      Default(call.opts.idempotencyTTL,
                                              DEFAULT_IDEMPOTENCY_TTL), t)
                        ELSE g.store]
    ELSE RunOperation(call, store, valid)

\* lines 91-92: the idempotency lookup, up to its await
IdempotencyCheck(call, store, t, valid) ==
    IF call.opts.idempotencyKey # ""
    THEN LET g == CacheGet(store, IdemKey(call.opts.idempotencyKey), t)
         IN  [call |-> [call EXCEPT !.pc = "idemGet", !.cached = g.value,
                                    !.storeError = g.threw],
              store |-> g.store]
    ELSE RunOperation(call, store, valid)

\* lines 84-85: the read-cache lookup, up to its await
CacheCheck(call, store, t, valid) ==
    IF UsesCache(call)
    THEN LET g == CacheGet(store, call.opts.cacheKey, t)
         IN  [call |-> [call EXCEPT !.pc = "cacheGet", !.cached = g.value,
                                    !.storeError = g.threw],
              store |-> g.store]
    ELSE IdempotencyCheck(call, store, t, valid)

\* IdempotencyWrite made only when the response was cached as well
IdempotencyWrite_OnlyWhenCaching(call, store, t) ==
    IF call.opts.idempotencyKey # "" /\ UsesCache(call)
    THEN [call |-> [call EXCEPT !.pc = "idemSet", !.setAt = t],
          store |-> CacheSet(store, IdemKey(call.opts.idempotencyKey),
                             call.result[1].data,
                             Default(call.opts.idempotencyTTL, DEFAULT_IDEMPOTENCY_TTL), t)]
    ELSE [call |-> [call EXCEPT !.pc = "returned"], store |-> store]

\* lines 108-112: the idempotency write, up to its await, or the return
IdempotencyWrite(call, store, t) ==
    IF call.opts.idempotencyKey # ""
    THEN [call |-> [call EXCEPT !.pc = "idemSet", !.setAt = t],
          store |-> CacheSet(store, IdemKey(call.opts.idempotencyKey),
                             call.result[1].data,
                             Default(call.opts.idempotencyTTL, DEFAULT_IDEMPOTENCY_TTL), t)]
    ELSE [call |-> [call EXCEPT !.pc = "returned"], store |-> store]

\* lines 104-105: the read-cache write, up to its await
CacheWrite(call, store, t) ==
    IF UsesCache(call)
    THEN [call |-> [call EXCEPT !.pc = "cacheSet"],
          store |-> CacheSet(store, call.opts.cacheKey, call.result[1].data,
                             Default(call.opts.cacheTTL, DEFAULT_CACHE_TTL), t)]
    ELSE IdempotencyWrite(call, store, t)

\* the step leaves call c and the store of its LiraXCore as `after` says
Becomes(c, after) ==
    /\ ecalls' = [ecalls EXCEPT ![c] = after.call]
    /\ stores' = [stores EXCEPT ![after.call.core] = after.store]

\* line 69: executeOperation is called on LiraXCore `core`
ExecuteOperation(c, core, opts, valid) ==
    /\ ecalls[c].pc = "idle"
    /\ \A d \in ECalls : d < c => ecalls[d].pc # "idle"
    /\ ecount < MaxCoreOps
    /\ ecount' = ecount + 1
    /\ LET call == [ECallIdle EXCEPT !.core = core, !.opts = opts,
                                     !.prior = Prior(opts.idempotencyKey, now)]
       IN  Becomes(c, CacheCheck(call, stores[core], now, valid))
    /\ UNCHANGED <<now, ehist>>

\* lines 85-89
AfterCacheGet(c, valid) ==
    /\ ecalls[c].pc = "cacheGet"
    /\ IF ecalls[c].storeError
       THEN Becomes(c, [call |-> [ecalls[c] EXCEPT !.pc = "failed"],
                        store |-> stores[ecalls[c].core]])
       ELSE IF Truthy(ecalls[c].cached)
       THEN Becomes(c, [call |-> [ecalls[c] EXCEPT !.pc = "returned",
                                     !.result = <<[data |-> ecalls[c].cached[1],
                                                   meta |-> {"fromCache"}]>>],
                        store |-> stores[ecalls[c].core]])
       ELSE Becomes(c, IdempotencyCheck(ecalls[c], stores[ecalls[c].core], now, valid))
    /\ UNCHANGED <<now, ehist, ecount>>

\* lines 92-96
AfterIdemGet(c, valid) ==
    /\ ecalls[c].pc = "idemGet"
    /\ IF ecalls[c].storeError
       THEN Becomes(c, [call |-> [ecalls[c] EXCEPT !.pc = "failed"],
                        store |-> stores[ecalls[c].core]])
       ELSE IF Truthy(ecalls[c].cached)
       THEN Becomes(c, [call |-> [ecalls[c] EXCEPT !.pc = "returned",
                                     !.result = <<[data |-> ecalls[c].cached[1],
                                                   meta |-> {"fromCache", "idempotencyHit"}]>>],
                        store |-> stores[ecalls[c].core]])
       ELSE Becomes(c, RunOperation(ecalls[c], stores[ecalls[c].core], valid))
    /\ UNCHANGED <<now, ehist, ecount>>

\* lines 102-105: liraxRequest resolves with a response
LiraxRequestResolves(c, response) ==
    /\ ecalls[c].pc = "network"
    /\ Becomes(c, CacheWrite([ecalls[c] EXCEPT
                                 !.result = <<[data |-> response, meta |-> {}]>>],
                             stores[ecalls[c].core], now))
    /\ UNCHANGED <<now, ehist, ecount>>

\* line 102: liraxRequest rejects
LiraxRequestRejects(c) ==
    /\ ecalls[c].pc = "network"
    /\ ecalls' = [ecalls EXCEPT ![c].pc = "failed"]
    /\ UNCHANGED <<now, stores, ehist, ecount>>

\* lines 105-109
AfterCacheSet(c) ==
    /\ ecalls[c].pc = "cacheSet"
    /\ Becomes(c, IdempotencyWrite(ecalls[c], stores[ecalls[c].core], now))
    /\ UNCHANGED <<now, ehist, ecount>>

\* lines 109-112
AfterIdemSet(c) ==
    /\ ecalls[c].pc = "idemSet"
    /\ ecalls' = [ecalls EXCEPT ![c].pc = "returned"]
    /\ UNCHANGED <<now, stores, ehist, ecount>>

\* the history after the caller has the outcome of call c: a call that
\* went to the network and succeeded is the first one of its key unless an
\* earlier one is still within its idempotencyTTL
HistReturn(h, call, t) ==
    LET k == call.opts.idempotencyKey
    IN  IF call.pc = "returned" /\ call.net > 0 /\ k # "" /\ Prior(k, t) = <<>>
        THEN [h EXCEPT ![k] =
                 <<[data |-> call.result[1].data, at |-> call.setAt,
                    ttl |-> Default(call.opts.idempotencyTTL, DEFAULT_IDEMPOTENCY_TTL)]>>]
        ELSE h

\* the caller has the outcome of call c
CoreReturns(c) ==
    /\ ecalls[c].pc \in {"returned", "failed"}
    /\ ehist' = HistReturn(ehist, ecalls[c], now)
    /\ ecalls' = [ecalls EXCEPT ![c] = ECallIdle]
    /\ UNCHANGED <<now, stores, ecount>>

\* time passes between the turns of the event loop: while no call is
\* between an await on the in-process store and its continuation
TickCore ==
    /\ \A c \in ECalls : ecalls[c].pc \in {"idle", "network"}
    /\ Tick(CoreStepMs, MaxCoreTicks * CoreStepMs)
    /\ UNCHANGED coreVars

\* lines 17-67: every LiraXCore is constructed with a
\* MemoryCacheProvider of its own, empty
CoreStart ==
    /\ stores = [core \in Cores |-> [key \in StoreKeys |-> NoCacheEntry]]
    /\ ecalls = <<ECallIdle>>
    /\ ehist = [k \in IdempotencyKeys |-> <<>>]
    /\ ecount = 0

\* ============================================================ LiraXTrigger.webhook
\* Tokens are sequences of characters: the configured incoming token, one of
\* the same length that differs in its last character, and a proper prefix.
IncomingToken == <<"h", "0", "0", "k">>
WrongToken == <<"h", "0", "0", "x">>
ShortToken == <<"h", "0">>

\* the commands of the vendor's notifications, as sequences too
CmdEvent == <<"event">>
CmdContact == <<"contact">>

\* the values of a string field of a request: <<>> when the field is absent,
\* <<s>> when it is the string s
Absent == <<>>
HookTokens == {Absent, <<<<>>>>, <<ShortToken>>, <<WrongToken>>, <<IncomingToken>>}
HookCmds == {Absent, <<CmdEvent>>, <<CmdContact>>}

\* this.getBodyData(): an object, a text (JSON or form-encoded) with the
\* same fields, or a value that is neither
BodyData ==
    [kind : {"object", "text"}, cmd : HookCmds, from_LiraX_token : HookTokens]
    \cup {[kind |-> "other", cmd |-> Absent, from_LiraX_token |-> Absent]}

\* credentials.incomingToken, "" when it is not configured
ExpectedTokens == {<<>>, IncomingToken}

\* the eventFilter parameter
EventFilters == {{}, {CmdEvent}}

\* part_002 lines 771-794: parseWebhookBody; a value that is neither an
\* object nor a text becomes {raw: bodyData}
parseWebhookBody(bodyData) ==
    IF bodyData.kind = "other"
    THEN [cmd |-> Absent, from_LiraX_token |-> Absent]
    ELSE [cmd |-> bodyData.cmd, from_LiraX_token |-> bodyData.from_LiraX_token]

\* a value JavaScript takes for false: an absent field or the empty string
Falsy(field) == field = Absent \/ field[1] = <<>>

\* part_002 lines 881-893: validateWebhookPayload, the error it throws or
\* <<>>
validateWebhookPayload(payload) ==
    IF Falsy(payload.cmd)
    THEN <<[name |-> "Error", httpCode |-> 0,
            message |-> "Invalid webhook payload: missing cmd field"]>>
    ELSE <<>>

\* crypto.timingSafeEqual on two buffers of one length
timingSafeEqual(a, b) == \A i \in 1 .. Len(a) : a[i] = b[i]

\* part_002 lines 730-769: verifyWebhookToken, the error it throws or <<>>
verifyWebhookToken(incomingToken, expectedToken) ==
    IF Falsy(incomingToken)
    THEN <<[name |-> "Error", httpCode |-> 401, message |-> "Missing webhook token"]>>
    ELSE IF expectedToken = <<>>
    THEN <<[name |-> "Error", httpCode |-> 401,
            message |-> "Webhook token not configured in credentials"]>>
    ELSE IF Len(incomingToken[1]) # Len(expectedToken)
    THEN <<[name |-> "Error", httpCode |-> 401, message |-> "Invalid webhook token"]>>
    ELSE IF ~timingSafeEqual(incomingToken[1], expectedToken)
    THEN <<[name |-> "Error", httpCode |-> 401, message |-> "Invalid webhook token"]>>
    ELSE <<>>

\* what webhook() does with a request: it throws `error`, answers without
\* an event, or hands workflowData (one event) to the workflow
HookThrows(error) == [outcome |-> "thrown", error |-> <<error>>]
HookIgnores == [outcome |-> "noWebhookResponse", error |-> <<>>]
HookEmits == [outcome |-> "workflowData", error |-> <<>>]

\* LiraXTrigger.node.ts lines 244-361: webhook()
webhook(request) ==
    LET webhookData == parseWebhookBody(request.bodyData)
        invalid == validateWebhookPayload(webhookData)
        denied == verifyWebhookToken(webhookData.from_LiraX_token,
                                     request.incomingToken)
    IN  IF invalid # <<>>
        THEN HookThrows(invalid[1])
        ELSE IF request.validateToken /\ denied # <<>>
        THEN HookThrows([name |-> "NodeApiError", httpCode |-> 401,
                         message |-> "Webhook token verification failed"])
        ELSE IF request.eventFilter # {} /\ webhookData.cmd[1] \notin request.eventFilter
        THEN HookIgnores
        ELSE HookEmits

HookRequests ==
    [bodyData : BodyData, incomingToken : ExpectedTokens,
     validateToken : BOOLEAN, eventFilter : EventFilters]

NoHook == [request |-> <<>>, result |-> <<>>]

HookStart == hook = NoHook

\* the vendor, or anyone else, posts to the webhook URL
Webhook(request) ==
    /\ hook' = [request |-> <<request>>, result |-> <<webhook(request)>>]
    /\ UNCHANGED now


\* ============================================================ LiraX.execute
\* part_001 lines 457-676.  Items are numbered from 0 as in the code; the
\* operation of item i is entry i + 1 of `ops` and of `results`.
ItemCounts == 0 .. MaxItems
BatchSizes == 1 .. MaxBatchSize
ConcurrentBatches == 1 .. MaxConcurrentBatches

RunIdle ==
    [pc |-> "idle", n |-> 0, continueOnFail |-> FALSE, enableBatching |-> FALSE,
     batchSize |-> 1, maxConcurrentBatches |-> 1, batchIndex |-> 0, i |-> 0,
     ops |-> <<>>, results |-> <<>>, returnData |-> <<>>]

RunStart == run = RunIdle

\* executeOperation rethrowing in continue-on-failure mode as well
executeOperation_AlwaysThrows(i, ok, continueOnFail) ==
    IF ok
    THEN [settles |-> "resolved",
          value |-> <<[pairedItem |-> i, success |-> TRUE, error |-> <<>>]>>]
    ELSE [settles |-> "rejected", value |-> <<>>]

\* lines 489-646: executeOperation(i), by how the operation of the item
\* ends: the result it resolves with, or the rejection
executeOperation(i, ok, continueOnFail) ==
    IF ok
    THEN [settles |-> "resolved",
          value |-> <<[pairedItem |-> i, success |-> TRUE, error |-> <<>>]>>]
    ELSE IF continueOnFail
    THEN [settles |-> "resolved",
          value |-> <<[pairedItem |-> i, success |-> FALSE, error |-> <<"message">>]>>]
    ELSE [settles |-> "rejected", value |-> <<>>]

\* lines 649-652: batches.length
BatchCount(r) == (r.n + r.batchSize - 1) \div r.batchSize

\* lines 654-659: the items of currentBatches, in the order of Promise.all
CurrentItems(r) ==
    {i \in 0 .. r.n - 1 :
        i \div r.batchSize \in r.batchIndex .. r.batchIndex + r.maxConcurrentBatches - 1}

\* lines 657-659: executeOperation is called for every item of the batches
StartBatches(r) ==
    [r EXCEPT !.pc = "batch",
              !.ops = [k \in 1 .. r.n |->
                          IF k - 1 \in CurrentItems(r) THEN "running" ELSE r.ops[k]]]

\* line 671: executeOperation(i) is called
StartItem(r, i) == [r EXCEPT !.pc = "sequential", !.i = i, !.ops[i + 1] = "running"]

\* lines 457-487, 648, 669: execute() up to its first await of an operation
ExecuteNode(n, continueOnFail, enableBatching, batchSize, maxConcurrentBatches) ==
    /\ run.pc = "idle"
    /\ LET r == [RunIdle EXCEPT !.n = n, !.continueOnFail = continueOnFail,
                                !.enableBatching = enableBatching,
                                !.batchSize = batchSize,
                                !.maxConcurrentBatches = maxConcurrentBatches,
                                !.ops = [k \in 1 .. n |-> "todo"],
                                !.results = [k \in 1 .. n |-> <<>>]]
       IN  run' = IF enableBatching /\ n > 1 THEN StartBatches(r)
                  ELSE IF n = 0 THEN [r EXCEPT !.pc = "returned"]
                  ELSE StartItem(r, 0)
    /\ UNCHANGED now

\* the results of a set of items in the order of the items
RECURSIVE InOrder(_, _)
InOrder(r, items) ==
    IF items = {} THEN <<>>
    ELSE LET i == CHOOSE x \in items : \A y \in items : x <= y
         IN  r.results[i + 1] \o InOrder(r, items \ {i})

\* lines 660-666: Promise.all has resolved
AfterBatches(r) ==
    LET r1 == [r EXCEPT !.returnData = @ \o InOrder(r, CurrentItems(r))]
    IN  IF r.batchIndex + r.maxConcurrentBatches < BatchCount(r)
        THEN [r1 EXCEPT !.pc = "delay"]
        ELSE [r1 EXCEPT !.pc = "returned"]

\* lines 671-673: the awaited executeOperation(i) has resolved
AfterItem(r) ==
    LET r1 == [r EXCEPT !.returnData = @ \o r.results[r.i + 1]]
    IN  IF r.i + 1 < r.n THEN StartItem(r1, r.i + 1)
        ELSE [r1 EXCEPT !.pc = "returned"]

\* the operation of item i ends, well or not
OperationEnds(i, ok) ==
    /\ i + 1 \in DOMAIN run.ops
    /\ run.ops[i + 1] = "running"
    /\ LET e == executeOperation(i, ok, run.continueOnFail)
           r1 == [run EXCEPT !.ops[i + 1] = e.settles, !.results[i + 1] = e.value]
       IN  run' = IF run.pc = "raised" THEN r1
                  ELSE IF e.settles = "rejected" THEN [r1 EXCEPT !.pc = "raised"]
                  ELSE IF run.pc = "sequential" THEN AfterItem(r1)
                  ELSE IF \A j \in CurrentItems(r1) : r1.ops[j + 1] = "resolved"
                  THEN AfterBatches(r1)
                  ELSE r1
    /\ UNCHANGED now

\* lines 664-666, 654: the delay between batches is over
DelayOver ==
    /\ run.pc = "delay"
    /\ run' = StartBatches([run EXCEPT !.batchIndex = @ + run.maxConcurrentBatches])
    /\ UNCHANGED now

\* the host has the result of execute() and calls it again later
ExecuteReturns ==
    /\ run.pc \in {"returned", "raised"}
    /\ \A k \in DOMAIN run.ops : run.ops[k] # "running"
    /\ run' = RunIdle
    /\ UNCHANGED now


\* ============================================================ CircuitBreakerFactory.cleanup
\* Beside each breaker id (not read by the code): whether the factory's Map
\* has an entry for it, when its breaker was last used by a call (0: never)
\* and, once cleanup has removed it, the breaker it removed, when that one
\* was last used and when it was removed.  A breaker the Map does not hold
\* yet is, in `breakers`, the new CircuitBreaker getBreaker will make.
NoSweep == [present |-> FALSE, lastUsed |-> 0, removed |-> <<>>]

SweepStart == swept = [id \in BreakerIds |-> NoSweep]

\* part_002 lines 138-139: the condition of the sweep
Removable(b, t) ==
    t - b.lastFailureTime > BREAKER_CLEANUP_THRESHOLD_MS /\ b.failures = 0

Used(id) == [swept EXCEPT ![id].present = TRUE, ![id].lastUsed = now]

\* lines 125-130 and 654-672: getBreaker(id).execute(operation)
FactoryExecute(c, id) == Execute(c, id) /\ swept' = Used(id)

\* lines 672-677: the operation of a call settles
FactorySucceeds(c) == OperationSucceeds(c) /\ swept' = Used(bcalls[c].id)
FactoryFails(c) == OperationFails(c) /\ swept' = Used(bcalls[c].id)

\* lines 132-142: CircuitBreakerFactory.cleanup(), run while no call is in
\* flight
FactoryCleanup ==
    /\ \A c \in BCalls : bcalls[c].pc # "running"
    /\ LET gone == {id \in BreakerIds :
                       swept[id].present /\ Removable(breakers[id], now)}
       IN  /\ gone # {}
           /\ breakers' = [id \in BreakerIds |->
                              IF id \in gone THEN NewBreaker ELSE breakers[id]]
           /\ bhist' = [id \in BreakerIds |->
                           IF id \in gone THEN NoHistory ELSE bhist[id]]
           /\ swept' = [id \in BreakerIds |->
                           IF id \in gone
                           THEN [present |-> FALSE, lastUsed |-> 0,
                                 removed |-> <<[breaker |-> breakers[id],
                                                lastUsed |-> swept[id].lastUsed,
                                                at |-> now]>>]
                           ELSE swept[id]]
    /\ UNCHANGED <<now, bcalls>>

\* more than the cleanup threshold goes by at once
TickSweep ==
    /\ Tick(BREAKER_CLEANUP_THRESHOLD_MS + BreakerStepMs,
            BREAKER_CLEANUP_THRESHOLD_MS + (MaxBreakerTicks + 1) * BreakerStepMs)
    /\ UNCHANGED breakerVars


\* ============================================================ admission of calls
\* Beside each breaker (not read by the code): how many of the successes
\* of its latest HALF_OPEN period were of calls admitted in that period;
\* beside each call slot: whether the breaker admitted the call in its
\* current HALF_OPEN period.
AdmittedStart ==
    admitted = [own |-> [id \in BreakerIds |-> 0],
                fresh |-> [c \in 1 .. MaxProbeCalls |-> FALSE]]

\* the calls admitted in a HALF_OPEN period of breaker id that has ended
Stale(id, c) == bcalls[c].id = id /\ breakers'[id].state # "HALF_OPEN"

\* lines 654-672: execute(operation), with the period the call is admitted in
AdmitExecute(c, id) ==
    /\ Execute(c, id)
    /\ LET entered == breakers[id].state = "OPEN" /\ breakers'[id].state = "HALF_OPEN"
       IN  admitted' =
             [own |-> [admitted.own EXCEPT ![id] = IF entered THEN 0 ELSE @],
              fresh |-> [d \in 1 .. MaxProbeCalls |->
                            IF d = c
                            THEN bcalls'[c].pc = "running" /\ breakers'[id].state = "HALF_OPEN"
                            ELSE IF entered /\ bcalls[d].id = id THEN FALSE
                            ELSE admitted.fresh[d]]]

\* lines 672-674: the operation of a call resolved
AdmitSucceeds(c) ==
    /\ OperationSucceeds(c)
    /\ LET id == bcalls[c].id
       IN  admitted' =
             [own |-> [admitted.own EXCEPT
                          ![id] = IF breakers[id].state = "HALF_OPEN" /\ admitted.fresh[c]
                                  THEN @ + 1 ELSE @],
              fresh |-> [d \in 1 .. MaxProbeCalls |->
                            IF d = c \/ Stale(id, d) THEN FALSE ELSE admitted.fresh[d]]]

\* lines 675-678: the operation of a call rejected
AdmitFails(c) ==
    /\ OperationFails(c)
    /\ LET id == bcalls[c].id
       IN  admitted' =
             [admitted EXCEPT
                !.own[id] = IF breakers'[id].state = "OPEN" THEN 0 ELSE @,
                !.fresh = [d \in 1 .. MaxProbeCalls |->
                              IF d = c \/ Stale(id, d) THEN FALSE ELSE @[d]]]

\* ============================================================ ThrottlingManager.cleanup
\* part_002 lines 113-115: the entry is evicted
Evictable(entry, t) ==
    /\ entry.present
    /\ t - entry.lastRequestTime > THROTTLE_CLEANUP_THRESHOLD_MS
    /\ entry.pending = 0

\* lines 108-117: cleanup(), a callback of the event loop
ThrottleCleanup ==
    /\ ~ContinuationQueued
    /\ \E k \in ThrottleKeys : Evictable(throttleMap[k], now)
    /\ throttleMap' = [k \in ThrottleKeys |->
                          IF Evictable(throttleMap[k], now) THEN NoEntry
                          ELSE throttleMap[k]]
    /\ UNCHANGED <<now, tcalls, tseq>>

\* more than the cleanup threshold goes by at once
TickEvict ==
    /\ ~ContinuationQueued
    /\ Tick(THROTTLE_CLEANUP_THRESHOLD_MS + ThrottleStepMs,
            THROTTLE_CLEANUP_THRESHOLD_MS + (MaxThrottleTicks + 1) * ThrottleStepMs)
    /\ UNCHANGED <<throttleMap, tcalls, tseq>>

\* ============================================================ specifications
InitThrottle ==
    /\ now = StartTime
    /\ req = ReqIdle
    /\ CoreStart
    /\ ThrottleStart
    /\ BackoffStart
    /\ CacheStart
    /\ HandlerStart
    /\ HookStart
    /\ RunStart
    /\ SweepStart
    /\ AdmittedStart
    /\ BreakerStart
    /\ bcalls = [c \in 1 .. MaxBreakerCalls |-> BCallIdle]

NextThrottle ==
    \/ \E c \in TCalls, k \in ThrottleKeys : Throttle(c, k) /\ UNCHANGED <<breakerVars, req, coreVars, cache, handled, backoff, hook, run, swept, admitted>>
    \/ \E c \in TCalls : ThrottleAfterPending(c) /\ UNCHANGED <<breakerVars, req, coreVars, cache, handled, backoff, hook, run, swept, admitted>>
    \/ \E c \in TCalls : ThrottleAfterDelay(c) /\ UNCHANGED <<breakerVars, req, coreVars, cache, handled, backoff, hook, run, swept, admitted>>
    \/ \E c \in TCalls, ok \in BOOLEAN : OperationSettles(c, ok) /\ UNCHANGED <<breakerVars, req, coreVars, cache, handled, backoff, hook, run, swept, admitted>>
    \/ TickThrottle /\ UNCHANGED <<breakerVars, req, coreVars, cache, handled, backoff, hook, run, swept, admitted>>

SpecThrottle == InitThrottle /\ [][NextThrottle]_vars

InitBreaker ==
    /\ now = StartTime
    /\ req = ReqIdle
    /\ CoreStart
    /\ ThrottleStart
    /\ BackoffStart
    /\ CacheStart
    /\ HandlerStart
    /\ HookStart
    /\ RunStart
    /\ SweepStart
    /\ AdmittedStart
    /\ BreakerStart
    /\ bcalls = [c \in 1 .. MaxBreakerCalls |-> BCallIdle]

NextBreaker ==
    \/ \E c \in BCalls, id \in BreakerIds : Execute(c, id) /\ UNCHANGED <<throttleVars, req, coreVars, cache, handled, backoff, hook, run, swept, admitted>>
    \/ \E c \in BCalls : OperationSucceeds(c) /\ UNCHANGED <<throttleVars, req, coreVars, cache, handled, backoff, hook, run, swept, admitted>>
    \/ \E c \in BCalls : OperationFails(c) /\ UNCHANGED <<throttleVars, req, coreVars, cache, handled, backoff, hook, run, swept, admitted>>
    \/ \E c \in BCalls : Return(c) /\ UNCHANGED <<throttleVars, req, coreVars, cache, handled, backoff, hook, run, swept, admitted>>
    \/ TickBreaker /\ UNCHANGED <<throttleVars, req, coreVars, cache, handled, backoff, hook, run, swept, admitted>>

SpecBreaker == InitBreaker /\ [][NextBreaker]_vars

\* liraxRequest calls made one after the other
InitRequest ==
    /\ now = StartTime
    /\ req = ReqIdle
    /\ CoreStart
    /\ ThrottleStart
    /\ BackoffStart
    /\ CacheStart
    /\ HandlerStart
    /\ HookStart
    /\ RunStart
    /\ SweepStart
    /\ AdmittedStart
    /\ BreakerStart
    /\ bcalls = [c \in 1 .. MaxBreakerCalls |-> BCallIdle]

NextRequest ==
    \/ \E creds \in Credentials, bypass \in BOOLEAN, aborted \in BOOLEAN :
           LiraxRequest(creds, bypass, aborted) /\ UNCHANGED <<throttleVars, bcalls, coreVars, cache, handled, backoff, hook, run, swept, admitted>>
    \/ \E outcome \in HttpOutcomes : HttpResponds(outcome) /\ UNCHANGED <<throttleVars, bcalls, coreVars, cache, handled, backoff, hook, run, swept, admitted>>
    \/ BackoffElapsed /\ UNCHANGED <<throttleVars, bcalls, coreVars, cache, handled, backoff, hook, run, swept, admitted>>
    \/ Abort /\ UNCHANGED <<throttleVars, bcalls, coreVars, cache, handled, backoff, hook, run, swept, admitted>>
    \/ RequestReturns /\ UNCHANGED <<throttleVars, bcalls, coreVars, cache, handled, backoff, hook, run, swept, admitted>>
    \/ TickRequest /\ UNCHANGED <<throttleVars, bcalls, coreVars, cache, handled, backoff, hook, run, swept, admitted>>

SpecRequest == InitRequest /\ [][NextRequest]_vars

\* LiraX.execute with `Disable Auto Retry` set: every request is made with
\* disableRetry: true in its options
NextNoRetry ==
    \/ \E creds \in Credentials, bypass \in BOOLEAN :
           LiraxRequestWith(creds, bypass, FALSE, TRUE)
           /\ UNCHANGED <<throttleVars, bcalls, coreVars, cache, handled, backoff, hook, run, swept, admitted>>
    \/ \E outcome \in HttpOutcomes :
           HttpResponds(outcome)
           /\ UNCHANGED <<throttleVars, bcalls, coreVars, cache, handled, backoff, hook, run, swept, admitted>>
    \/ BackoffElapsed /\ UNCHANGED <<throttleVars, bcalls, coreVars, cache, handled, backoff, hook, run, swept, admitted>>
    \/ RequestReturns /\ UNCHANGED <<throttleVars, bcalls, coreVars, cache, handled, backoff, hook, run, swept, admitted>>
    \/ TickRequest /\ UNCHANGED <<throttleVars, bcalls, coreVars, cache, handled, backoff, hook, run, swept, admitted>>

SpecNoRetry == InitRequest /\ [][NextNoRetry]_vars

\* executeOperation calls made one after the other on the LiraXCore
\* instances of the process
InitCore ==
    /\ now = StartTime
    /\ req = ReqIdle
    /\ CoreStart
    /\ ThrottleStart
    /\ BackoffStart
    /\ CacheStart
    /\ HandlerStart
    /\ HookStart
    /\ RunStart
    /\ SweepStart
    /\ AdmittedStart
    /\ BreakerStart
    /\ bcalls = [c \in 1 .. MaxBreakerCalls |-> BCallIdle]

OtherVars == <<throttleVars, breakerVars, req, cache, handled, backoff, hook, run, swept, admitted>>

NextCore ==
    \/ \E c \in ECalls, core \in Cores, opts \in Options, valid \in BOOLEAN :
           ExecuteOperation(c, core, opts, valid) /\ UNCHANGED OtherVars
    \/ \E c \in ECalls, valid \in BOOLEAN : AfterCacheGet(c, valid) /\ UNCHANGED OtherVars
    \/ \E c \in ECalls, valid \in BOOLEAN : AfterIdemGet(c, valid) /\ UNCHANGED OtherVars
    \/ \E c \in ECalls, response \in Responses :
           LiraxRequestResolves(c, response) /\ UNCHANGED OtherVars
    \/ \E c \in ECalls : LiraxRequestRejects(c) /\ UNCHANGED OtherVars
    \/ \E c \in ECalls : AfterCacheSet(c) /\ UNCHANGED OtherVars
    \/ \E c \in ECalls : AfterIdemSet(c) /\ UNCHANGED OtherVars
    \/ \E c \in ECalls : CoreReturns(c) /\ UNCHANGED OtherVars
    \/ TickCore /\ UNCHANGED OtherVars

SpecCore == InitCore /\ [][NextCore]_vars

\* executeOperation calls made one after the other on one LiraXCore
\* instance
InitInstance == InitCore

NextInstance ==
    \/ \E c \in ECalls, opts \in Options, valid \in BOOLEAN :
           ExecuteOperation(c, "execution1", opts, valid) /\ UNCHANGED OtherVars
    \/ \E c \in ECalls, valid \in BOOLEAN : AfterCacheGet(c, valid) /\ UNCHANGED OtherVars
    \/ \E c \in ECalls, valid \in BOOLEAN : AfterIdemGet(c, valid) /\ UNCHANGED OtherVars
    \/ \E c \in ECalls, response \in Responses :
           LiraxRequestResolves(c, response) /\ UNCHANGED OtherVars
    \/ \E c \in ECalls : LiraxRequestRejects(c) /\ UNCHANGED OtherVars
    \/ \E c \in ECalls : AfterCacheSet(c) /\ UNCHANGED OtherVars
    \/ \E c \in ECalls : AfterIdemSet(c) /\ UNCHANGED OtherVars
    \/ \E c \in ECalls : CoreReturns(c) /\ UNCHANGED OtherVars
    \/ TickCore /\ UNCHANGED OtherVars

SpecInstance == InitInstance /\ [][NextInstance]_vars

\* executeOperation calls that may overlap, on one LiraXCore instance
InitOverlap ==
    /\ now = StartTime
    /\ req = ReqIdle
    /\ stores = [core \in Cores |-> [key \in StoreKeys |-> NoCacheEntry]]
    /\ ecalls = [c \in 1 .. MaxOverlap |-> ECallIdle]
    /\ ehist = [k \in IdempotencyKeys |-> <<>>]
    /\ ecount = 0
    /\ ThrottleStart
    /\ BackoffStart
    /\ CacheStart
    /\ HandlerStart
    /\ HookStart
    /\ RunStart
    /\ SweepStart
    /\ AdmittedStart
    /\ BreakerStart
    /\ bcalls = [c \in 1 .. MaxBreakerCalls |-> BCallIdle]

\* the overlapping calls carry an idempotency key, leave the TTLs to
\* their defaults and use the read cache when they give a cacheKey
OverlapOptions ==
    {opts \in Options : /\ opts.idempotencyKey # ""
                        /\ opts.idempotencyTTL = <<>>
                        /\ opts.cacheTTL = <<>>
                        /\ opts.useCache = (opts.cacheKey # "")}

NextOverlap ==
    \/ \E c \in ECalls, opts \in OverlapOptions, valid \in BOOLEAN :
           ExecuteOperation(c, "execution1", opts, valid) /\ UNCHANGED OtherVars
    \/ \E c \in ECalls, valid \in BOOLEAN : AfterCacheGet(c, valid) /\ UNCHANGED OtherVars
    \/ \E c \in ECalls, valid \in BOOLEAN : AfterIdemGet(c, valid) /\ UNCHANGED OtherVars
    \/ \E c \in ECalls, response \in Responses :
           LiraxRequestResolves(c, response) /\ UNCHANGED OtherVars
    \/ \E c \in ECalls : LiraxRequestRejects(c) /\ UNCHANGED OtherVars
    \/ \E c \in ECalls : AfterCacheSet(c) /\ UNCHANGED OtherVars
    \/ \E c \in ECalls : AfterIdemSet(c) /\ UNCHANGED OtherVars
    \/ \E c \in ECalls : CoreReturns(c) /\ UNCHANGED OtherVars
    \/ TickCore /\ UNCHANGED OtherVars

SpecOverlap == InitOverlap /\ [][NextOverlap]_vars

\* the breaker under a batch of MaxProbeCalls overlapping calls
InitProbes ==
    /\ now = StartTime
    /\ req = ReqIdle
    /\ CoreStart
    /\ ThrottleStart
    /\ BackoffStart
    /\ CacheStart
    /\ HandlerStart
    /\ HookStart
    /\ RunStart
    /\ SweepStart
    /\ AdmittedStart
    /\ BreakerStart
    /\ bcalls = [c \in 1 .. MaxProbeCalls |-> BCallIdle]

SpecProbes == InitProbes /\ [][NextBreaker]_vars

\* breaker-guarded liraxRequest calls of the tenants of one process
InitTenants == InitBreaker

NextTenants ==
    \/ \E c \in BCalls, tenant \in Tenants :
           TenantRequest(c, tenant) /\ UNCHANGED <<throttleVars, req, coreVars, cache, handled, backoff, hook, run, swept, admitted>>
    \/ \E c \in BCalls : OperationSucceeds(c) /\ UNCHANGED <<throttleVars, req, coreVars, cache, handled, backoff, hook, run, swept, admitted>>
    \/ \E c \in BCalls : OperationFails(c) /\ UNCHANGED <<throttleVars, req, coreVars, cache, handled, backoff, hook, run, swept, admitted>>
    \/ \E c \in BCalls : Return(c) /\ UNCHANGED <<throttleVars, req, coreVars, cache, handled, backoff, hook, run, swept, admitted>>
    \/ TickBreaker /\ UNCHANGED <<throttleVars, req, coreVars, cache, handled, backoff, hook, run, swept, admitted>>

SpecTenants == InitTenants /\ [][NextTenants]_vars

\* operations on the provider that CacheFactory.create has returned; a
\* store that answers every operation is one of the intermittent ones
NonCacheVars == <<throttleVars, breakerVars, req, coreVars, handled, backoff, hook, run, swept, admitted>>

InitCache ==
    /\ now = StartTime
    /\ req = ReqIdle
    /\ CoreStart
    /\ ThrottleStart
    /\ BackoffStart
    /\ HandlerStart
    /\ HookStart
    /\ RunStart
    /\ SweepStart
    /\ AdmittedStart
    /\ BreakerStart
    /\ bcalls = [c \in 1 .. MaxBreakerCalls |-> BCallIdle]
    /\ \E providerType \in ProviderTypes, env \in Environments \ {"ok"},
          ttl \in OptionTtls :
           /\ providerType = "memory" => env = "intermittent"
           /\ cache = NewCache(providerType, env,
                  <<NewProvider(1, providerType, env, <<"t">>, ttl)>>, {<<"k">>})

NextCache ==
    \/ \E id \in DOMAIN cache.providers, key \in CacheKeys, up \in BOOLEAN :
           Get(id, key, up) /\ UNCHANGED NonCacheVars
    \/ \E id \in DOMAIN cache.providers, key \in CacheKeys, value \in CacheValues,
          ttlSeconds \in TtlArgs, up \in BOOLEAN :
           Set(id, key, value, ttlSeconds, up) /\ UNCHANGED NonCacheVars
    \/ \E id \in DOMAIN cache.providers, key \in CacheKeys, up \in BOOLEAN :
           Delete(id, key, up) /\ UNCHANGED NonCacheVars
    \/ \E id \in DOMAIN cache.providers, up \in BOOLEAN :
           Clear(id, up) /\ UNCHANGED NonCacheVars
    \/ \E step \in {CacheStepMs, CacheLeapMs} : TickCache(step) /\ UNCHANGED NonCacheVars

SpecCache == InitCache /\ [][NextCache]_vars

\* two providers with different key prefixes on one directory or one
\* key-value service
InitShared ==
    /\ now = StartTime
    /\ req = ReqIdle
    /\ CoreStart
    /\ ThrottleStart
    /\ BackoffStart
    /\ HandlerStart
    /\ HookStart
    /\ RunStart
    /\ SweepStart
    /\ AdmittedStart
    /\ BreakerStart
    /\ bcalls = [c \in 1 .. MaxBreakerCalls |-> BCallIdle]
    /\ \E providerType \in {"file", "redis"}, prefix1, prefix2 \in KeyPrefixes :
           /\ prefix1 # prefix2
           /\ cache = NewCache(providerType, "ok",
                  <<NewProvider(1, providerType, "ok", prefix1, <<>>),
                    NewProvider(2, providerType, "ok", prefix2, <<>>)>>, CacheKeys)

\* the entries are set never to expire; the clock stands still
NextShared ==
    \/ \E id \in DOMAIN cache.providers, key \in CacheKeys :
           Get(id, key, TRUE) /\ UNCHANGED NonCacheVars
    \/ \E id \in DOMAIN cache.providers, key \in CacheKeys, value \in CacheValues :
           Set(id, key, value, <<0>>, TRUE) /\ UNCHANGED NonCacheVars
    \/ \E id \in DOMAIN cache.providers, key \in CacheKeys :
           Delete(id, key, TRUE) /\ UNCHANGED NonCacheVars
    \/ \E id \in DOMAIN cache.providers :
           Clear(id, TRUE) /\ UNCHANGED NonCacheVars

SpecShared == InitShared /\ [][NextShared]_vars

\* executeOperation on a LiraXCore constructed with the networked provider
\* while its server cannot be reached
InitDegraded ==
    /\ now = StartTime
    /\ req = ReqIdle
    /\ CoreStart
    /\ ThrottleStart
    /\ BackoffStart
    /\ HandlerStart
    /\ HookStart
    /\ RunStart
    /\ SweepStart
    /\ AdmittedStart
    /\ BreakerStart
    /\ bcalls = [c \in 1 .. MaxBreakerCalls |-> BCallIdle]
    /\ cache = NewCache("redis", "unreachable",
                   <<NewProvider(1, "redis", "unreachable", <<"t">>, <<>>)>>,
                   {<<"k">>})

\* what a step of call c does to the provider: a lookup that the call now
\* awaits, or a write
OverStore(c) ==
    /\ cache' =
          IF ecalls'[c].pc \in {"cacheGet", "idemGet"}
          THEN [cache EXCEPT
                   !.stats[1] = RedisGet(cache.providers[1], cache.store, @,
                                         <<"k">>, now, FALSE).stats,
                   !.faulted = TRUE]
          ELSE IF ecalls'[c].pc \in {"cacheSet", "idemSet"}
          THEN [cache EXCEPT !.faulted = TRUE]
          ELSE cache
    /\ UNCHANGED <<throttleVars, breakerVars, req, handled, backoff, hook, run, swept, admitted>>

NextDegraded ==
    \/ \E c \in ECalls, opts \in Options, valid \in BOOLEAN :
           ExecuteOperation(c, "execution1", opts, valid) /\ OverStore(c)
    \/ \E c \in ECalls, valid \in BOOLEAN : AfterCacheGet(c, valid) /\ OverStore(c)
    \/ \E c \in ECalls, valid \in BOOLEAN : AfterIdemGet(c, valid) /\ OverStore(c)
    \/ \E c \in ECalls, response \in Responses :
           LiraxRequestResolves(c, response) /\ OverStore(c)
    \/ \E c \in ECalls : LiraxRequestRejects(c) /\ OverStore(c)
    \/ \E c \in ECalls : AfterCacheSet(c) /\ OverStore(c)
    \/ \E c \in ECalls : AfterIdemSet(c) /\ OverStore(c)
    \/ \E c \in ECalls : CoreReturns(c) /\ UNCHANGED OtherVars
    \/ TickCore /\ UNCHANGED OtherVars

SpecDegraded == InitDegraded /\ [][NextDegraded]_vars

\* LiraXErrorHandler.handle on every payload and error
InitHandler ==
    /\ now = StartTime
    /\ req = ReqIdle
    /\ CoreStart
    /\ ThrottleStart
    /\ BackoffStart
    /\ CacheStart
    /\ BreakerStart
    /\ bcalls = [c \in 1 .. MaxBreakerCalls |-> BCallIdle]
    /\ HookStart
    /\ RunStart
    /\ SweepStart
    /\ AdmittedStart
    /\ \E payload \in Payloads, error \in HandledErrors :
           handled = [payload |-> payload, error |-> <<error>>, surfaced |-> <<>>]

NextHandler ==
    Handle /\ UNCHANGED <<throttleVars, breakerVars, req, coreVars, cache, backoff, hook, run, swept, admitted>>

SpecHandler == InitHandler /\ [][NextHandler]_vars

\* the retries of one endpoint, for every configured backoff base
InitBackoff ==
    /\ now = StartTime
    /\ req = ReqIdle
    /\ CoreStart
    /\ CacheStart
    /\ HandlerStart
    /\ HookStart
    /\ RunStart
    /\ SweepStart
    /\ AdmittedStart
    /\ throttleMap = [k \in ThrottleKeys |-> NoEntry]
    /\ tcalls = [c \in TCalls |-> TCallIdle]
    /\ tseq = 0
    /\ BreakerStart
    /\ bcalls = [c \in 1 .. MaxBreakerCalls |-> BCallIdle]
    /\ \E base \in BackoffBases : backoff = [NoBackoff EXCEPT !.backoffBaseMs = base]

NextBackoff ==
    \/ \E random \in Randoms :
           RetryableError(random)
           /\ UNCHANGED <<throttleVars, breakerVars, req, coreVars, cache, handled, hook, run, swept, admitted>>
    \/ Slept /\ UNCHANGED <<throttleVars, breakerVars, req, coreVars, cache, handled, hook, run, swept, admitted>>

SpecBackoff == InitBackoff /\ [][NextBackoff]_vars

\* requests arriving at the webhook of a LiraXTrigger node
InitHook ==
    /\ now = StartTime
    /\ req = ReqIdle
    /\ CoreStart
    /\ ThrottleStart
    /\ BackoffStart
    /\ CacheStart
    /\ HandlerStart
    /\ HookStart
    /\ RunStart
    /\ SweepStart
    /\ AdmittedStart
    /\ BreakerStart
    /\ bcalls = [c \in 1 .. MaxBreakerCalls |-> BCallIdle]

NextHook ==
    \E request \in HookRequests :
        Webhook(request)
        /\ UNCHANGED <<throttleVars, breakerVars, req, coreVars, cache, handled, backoff, run, swept, admitted>>

SpecHook == InitHook /\ [][NextHook]_vars

\* LiraX.execute called on the items of a workflow run
InitRun == InitHook

NextRun ==
    \/ \E n \in ItemCounts, continueOnFail \in BOOLEAN, enableBatching \in BOOLEAN,
          batchSize \in BatchSizes, maxConcurrentBatches \in ConcurrentBatches :
           ExecuteNode(n, continueOnFail, enableBatching, batchSize, maxConcurrentBatches)
           /\ UNCHANGED <<throttleVars, breakerVars, req, coreVars, cache, handled, backoff, hook, swept, admitted>>
    \/ \E i \in 0 .. MaxItems - 1, ok \in BOOLEAN :
           OperationEnds(i, ok)
           /\ UNCHANGED <<throttleVars, breakerVars, req, coreVars, cache, handled, backoff, hook, swept, admitted>>
    \/ DelayOver /\ UNCHANGED <<throttleVars, breakerVars, req, coreVars, cache, handled, backoff, hook, swept, admitted>>
    \/ ExecuteReturns /\ UNCHANGED <<throttleVars, breakerVars, req, coreVars, cache, handled, backoff, hook, swept, admitted>>

SpecRun == InitRun /\ [][NextRun]_vars

\* calls through the breakers of the factory, and its periodic cleanup
InitSweep == InitBreaker

NonSweepVars == <<throttleVars, req, coreVars, cache, handled, backoff, hook, run, admitted>>

NextSweep ==
    \/ \E c \in BCalls, id \in BreakerIds : FactoryExecute(c, id) /\ UNCHANGED NonSweepVars
    \/ \E c \in BCalls : FactorySucceeds(c) /\ UNCHANGED NonSweepVars
    \/ \E c \in BCalls : FactoryFails(c) /\ UNCHANGED NonSweepVars
    \/ \E c \in BCalls : Return(c) /\ UNCHANGED <<NonSweepVars, swept>>
    \/ FactoryCleanup /\ UNCHANGED NonSweepVars
    \/ TickBreaker /\ UNCHANGED <<NonSweepVars, swept>>
    \/ TickSweep /\ UNCHANGED <<NonSweepVars, swept>>

SpecSweep == InitSweep /\ [][NextSweep]_vars

\* overlapping calls through one breaker, each with the period it was
\* admitted in
InitAdmission == InitProbes

NonAdmissionVars == <<throttleVars, req, coreVars, cache, handled, backoff, hook, run, swept>>

NextAdmission ==
    \/ \E c \in BCalls, id \in BreakerIds : AdmitExecute(c, id) /\ UNCHANGED NonAdmissionVars
    \/ \E c \in BCalls : AdmitSucceeds(c) /\ UNCHANGED NonAdmissionVars
    \/ \E c \in BCalls : AdmitFails(c) /\ UNCHANGED NonAdmissionVars
    \/ \E c \in BCalls : Return(c) /\ UNCHANGED <<NonAdmissionVars, admitted>>
    \/ TickBreaker /\ UNCHANGED <<NonAdmissionVars, admitted>>

SpecAdmission == InitAdmission /\ [][NextAdmission]_vars

\* liraxRequest calls whose HTTP attempts and backoff sleeps complete:
\* the transport answers or times out (timeout: credentials.timeoutMs), the
\* timer of sleep() fires, and the caller takes the outcome
RequestRest == <<throttleVars, bcalls, coreVars, cache, handled, backoff, hook, run, swept, admitted>>

AttemptCompletes == \E outcome \in HttpOutcomes : HttpResponds(outcome) /\ UNCHANGED RequestRest

SleepCompletes == BackoffElapsed /\ UNCHANGED RequestRest

SpecTerminate ==
    /\ InitRequest
    /\ [][NextRequest]_vars
    /\ WF_vars(AttemptCompletes)
    /\ WF_vars(SleepCompletes)

\* throttled calls and the periodic cleanup of the throttle map
InitEvict == InitThrottle

NonThrottleVars == <<breakerVars, req, coreVars, cache, handled, backoff, hook, run, swept, admitted>>

NextEvict ==
    \/ \E c \in TCalls, k \in ThrottleKeys : Throttle(c, k) /\ UNCHANGED NonThrottleVars
    \/ \E c \in TCalls : ThrottleAfterPending(c) /\ UNCHANGED NonThrottleVars
    \/ \E c \in TCalls : ThrottleAfterDelay(c) /\ UNCHANGED NonThrottleVars
    \/ \E c \in TCalls, ok \in BOOLEAN : OperationSettles(c, ok) /\ UNCHANGED NonThrottleVars
    \/ ThrottleCleanup /\ UNCHANGED NonThrottleVars
    \/ TickThrottle /\ UNCHANGED NonThrottleVars
    \/ TickEvict /\ UNCHANGED NonThrottleVars

SpecEvict == InitEvict /\ [][NextEvict]_vars

\* ============================================================ claims

\* operations of key k that have started and not completed
Executing(k) == {c \in TCalls : tcalls[c].pc = "running" /\ tcalls[c].key = k}

\* C1: for every throttle key, at most one operation started through
\* throttle(key, op) is executing at any time.
C1_AtMostOneExecutingPerKey ==
    \A k \in ThrottleKeys : Cardinality(Executing(k)) <= 1

\* the step is a call of execute() in slot c
ExecuteStep(c) == bcalls[c].pc = "idle" /\ bcalls'[c].pc # "idle"
\* the step is the failure / the success of the operation of slot c
FailureStep(c) == bcalls[c].pc = "running" /\ bcalls'[c].pc = "failed"
SuccessStep(c) == bcalls[c].pc = "running" /\ bcalls'[c].pc = "ok"

\* C7: a call made while the breaker is OPEN and now - lastFailureTime <=
\* resetTimeout is rejected, its operation is not invoked and the breaker is
\* left as it was; a call made while it is OPEN after resetTimeout has
\* elapsed moves it to HALF_OPEN with successCount = halfOpenAttempts = 0
\* and its operation is invoked.
C7_OpenRejectsUntilResetTimeout ==
    [][\A c \in BCalls :
         LET id == bcalls'[c].id
         IN  (ExecuteStep(c) /\ breakers[id].state = "OPEN") =>
               IF now - breakers[id].lastFailureTime <= CIRCUIT_BREAKER_RESET_TIMEOUT_MS
               THEN /\ bcalls'[c].pc = "rejected"
                    /\ breakers' = breakers
               ELSE /\ bcalls'[c].pc = "running"
                    /\ breakers'[id].state = "HALF_OPEN"
                    /\ breakers'[id].successCount = 0
                    /\ breakers'[id].halfOpenAttempts = 0]_vars

\* a call was rejected by the OPEN breaker, and a later call, made after
\* resetTimeout, is running its operation in HALF_OPEN
C7_Witness ==
    \E c, d \in BCalls :
        /\ bcalls[c].pc = "rejected"
        /\ bcalls[d].pc = "running"
        /\ breakers[bcalls[d].id].state = "HALF_OPEN"
        /\ bhist[bcalls[d].id].hoInvoked = 1
        /\ now - bhist[bcalls[d].id].lastFailedAt > CIRCUIT_BREAKER_RESET_TIMEOUT_MS

\* C8: a HALF_OPEN breaker becomes CLOSED exactly at the 3rd success that
\* occurs in this HALF_OPEN period; after the 1st and the 2nd it is still
\* HALF_OPEN.
C8_ClosesAtThirdHalfOpenSuccess ==
    [][\A id \in BreakerIds :
         breakers[id].state = "HALF_OPEN" =>
           /\ bhist[id].hoSuccesses < 3
           /\ (breakers'[id].state = "CLOSED") <=> (bhist'[id].hoSuccesses = 3)
           /\ (bhist'[id].hoSuccesses \in {1, 2}
                 /\ bhist'[id].hoSuccesses # bhist[id].hoSuccesses)
              => breakers'[id].state = "HALF_OPEN"]_vars

C8_Witness ==
    \E id \in BreakerIds :
        /\ breakers[id].state = "CLOSED"
        /\ bhist[id].hoSuccesses = 3
        /\ bhist[id].lastFailureIn # "none"

\* C9: a call that fails while the breaker is HALF_OPEN leaves it OPEN with
\* lastFailureTime = the time of that failure, and a call made from then
\* until resetTimeout later is rejected.
C9_HalfOpenFailureReopens ==
    [][\A c \in BCalls :
         LET id == bcalls[c].id
         IN  (FailureStep(c) /\ breakers[id].state = "HALF_OPEN") =>
               /\ breakers'[id].state = "OPEN"
               /\ breakers'[id].lastFailureTime = now
               /\ ~Gate(breakers'[id], now).admit
               /\ ~Gate(breakers'[id], now + CIRCUIT_BREAKER_RESET_TIMEOUT_MS).admit]_vars

C9_Witness ==
    \E id \in BreakerIds :
        /\ bhist[id].lastFailureIn = "HALF_OPEN"
        /\ breakers[id].state = "OPEN"
        /\ breakers[id].lastFailureTime = bhist[id].lastFailedAt
        /\ \E c \in BCalls : bcalls[c].pc = "rejected" /\ bcalls[c].id = id

\* C10: between entering HALF_OPEN and leaving it, at most
\* halfOpenMaxAttempts (3) calls have their operation invoked.
C10_HalfOpenProbeBudget ==
    \A id \in BreakerIds :
        breakers[id].state = "HALF_OPEN" => bhist[id].hoInvoked <= halfOpenMaxAttempts

\* ------------------------------------------------------------ retry, failover
\* the HTTP attempts of the call in progress that went to endpoint `name`
AttemptsOn(name) == {i \in 1 .. Len(req.log) : req.log[i].url = name}

\* a new liraxRequest call is made in this step
RequestStep == req.pc = "idle" /\ req'.pc # "idle"

\* the operation of a breaker-guarded call fails in this step
GuardedFailureStep ==
    /\ req.pc \in {"idle", "http", "backoff"}
    /\ req'.pc = "failed"
    /\ ~req'.bypass
    /\ req'.thrown \in {"NoValidUrls", "Failover"}

\* C2: every failed breaker-guarded liraxRequest call counts as exactly one
\* failure however many HTTP attempts it made; the call that makes it
\* failureThreshold consecutive failed calls leaves the breaker OPEN, and a
\* guarded call made after that, no later than resetTimeout after the last
\* of these failures, is rejected without a single HTTP attempt.
C2_OpensAfterThresholdFailures ==
    [][ LET b == breakers["default"]
            h == bhist["default"]
        IN  /\ GuardedFailureStep =>
                /\ breakers'["default"].failures = b.failures + 1
                /\ bhist'["default"].consecFailed >= failureThreshold
                      => breakers'["default"].state = "OPEN"
            /\ ( /\ RequestStep
                 /\ ~req'.bypass
                 /\ h.consecFailed >= failureThreshold
                 /\ now - h.lastFailedAt <= CIRCUIT_BREAKER_RESET_TIMEOUT_MS )
               => /\ req'.pc = "failed"
                  /\ req'.thrown = "CircuitOpen"
                  /\ req'.log = <<>>
                  /\ breakers'["default"].state = "OPEN"
      ]_vars

\* a call rejected, without an HTTP attempt, by the breaker that the fifth
\* consecutive failed call opened
C2_Witness ==
    /\ req.pc = "failed"
    /\ req.thrown = "CircuitOpen"
    /\ req.log = <<>>
    /\ bhist["default"].consecFailed = failureThreshold
    /\ breakers["default"].failures = failureThreshold
    /\ now > bhist["default"].lastFailedAt

\* C4: with endpoints [A, B], A failing retryably on every attempt and B
\* answering, the call succeeds after exactly retries + 1 attempts on A
\* followed by one attempt on B.
C4_FailoverAfterMaxRetries ==
    ( /\ req.pc = "returned"
      /\ validUrls(req.creds) = <<UrlA, UrlB>>
      /\ \A i \in AttemptsOn("A") : req.log[i].kind = "transient"
      /\ AttemptsOn("B") # {}
      /\ \A i \in AttemptsOn("B") : req.log[i].kind = "ok" )
    => /\ Len(req.log) = req.creds.retries + 2
       /\ AttemptsOn("A") = 1 .. (req.creds.retries + 1)
       /\ req.log[Len(req.log)] = [url |-> "B", kind |-> "ok"]

\* C5: for every configured retries >= 0, 0 included, no endpoint is
\* attempted more than retries + 1 times, and an endpoint the call has given
\* up on after nothing but retryable failures was attempted exactly
\* retries + 1 times.
C5_RetriesPlusOneAttempts ==
    \A i \in 1 .. Len(validUrls(req.creds)) :
        LET name == validUrls(req.creds)[i].name
            on == AttemptsOn(name)
        IN  /\ Cardinality(on) <= req.creds.retries + 1
            /\ ( /\ ~req.aborted
                 /\ on # {}
                 /\ \A j \in on : req.log[j].kind = "transient"
                 /\ req.pc = "failed" \/ req.url > i )
               => Cardinality(on) = req.creds.retries + 1

\* C6: an attempt that fails with a non-retryable error is the last one on
\* its endpoint; the call then goes on to the next valid endpoint, if there
\* is one and the call was not aborted, instead of giving up; with a single
\* endpoint the call makes exactly one attempt.
C6_PermanentErrorNotRetried ==
    \A i \in 1 .. Len(req.log) :
        req.log[i].kind = "permanent" =>
            LET urls == validUrls(req.creds)
                k == CHOOSE k \in 1 .. Len(urls) : urls[k].name = req.log[i].url
            IN  /\ \A j \in (i + 1) .. Len(req.log) : req.log[j].url # req.log[i].url
                /\ (k < Len(urls) /\ ~req.aborted)
                      => /\ Len(req.log) > i
                         /\ req.log[i + 1].url = urls[k + 1].name
                /\ k = Len(urls) => (Len(req.log) = i /\ req.pc = "failed")
                /\ (Len(urls) = 1 /\ i = 1) => Len(req.log) = 1

\* a non-retryable failure on the first endpoint, answered by one attempt
\* on the second
C6_Witness ==
    /\ Len(req.log) = 2
    /\ req.log[1] = [url |-> "A", kind |-> "permanent"]
    /\ req.log[2].url = "B"
    /\ req.creds.retries = 1

\* ------------------------------------------------------------ idempotency
\* C3: a call made with idempotency key k after a call with k has succeeded,
\* within that call's idempotencyTTL, whether or not it sets useCache,
\* performs no network call and returns the first call's result tagged
\* fromCache and idempotencyHit.
C3_IdempotentReplay ==
    \A c \in ECalls :
        ecalls[c].prior # <<>> =>
            /\ ecalls[c].net = 0
            /\ ecalls[c].pc = "returned" =>
                  ecalls[c].result = <<[data |-> ecalls[c].prior[1],
                                        meta |-> {"fromCache", "idempotencyHit"}]>>

\* ------------------------------------------------------------ throttle order
\* the operation of call c is started in this step
StartStep(c) == tcalls[c].pc # "running" /\ tcalls'[c].pc = "running"

\* C11: an operation started through throttle(K, op) never starts earlier
\* than the minimum interval after the previous operation of K started.
C11_MinimumSpacing ==
    [][ \A c \in TCalls :
           (StartStep(c) /\ throttleMap[tcalls'[c].key].present) =>
               now - throttleMap[tcalls'[c].key].lastRequestTime
                   >= SMS_THROTTLE_DELAY_MS
      ]_vars

\* call d arrived before call c, for the same key, and has not started yet
WaitsBefore(d, c) ==
    /\ tcalls[d].pc \in {"awaitPending", "sleeping"}
    /\ tcalls[d].key = tcalls'[c].key
    /\ tcalls[d].seq < tcalls'[c].seq

\* C12: the calls of one key start their operations in the order in which
\* they arrived, and a call never waits for a call of another key.
C12_ArrivalOrder ==
    [][ /\ \A c \in TCalls :
              StartStep(c) => ~ \E d \in TCalls \ {c} : WaitsBefore(d, c)
        /\ \A c \in TCalls :
              tcalls[c].pc = "awaitPending" =>
                  tcalls[tcalls[c].entry.pending].key = tcalls[c].key
      ]_vars

\* ------------------------------------------------------------ read cache
\* the store of call c's LiraXCore holds an unexpired value under `key`
Holds(c, key) ==
    LET entry == stores[ecalls[c].core][makeKey(key)]
    IN  entry # NoCacheEntry /\ now <= entry.expires

\* call c takes a step
CallStep(c) == ecalls'[c] # ecalls[c]

\* C13: a call made with useCache and a cacheKey under which the store
\* holds an unexpired value returns that value tagged fromCache and makes
\* no network call.
C13_CacheHitServed ==
    [][ \A c \in ECalls :
           ( /\ ecalls[c].pc = "cacheGet"
             /\ Holds(c, ecalls[c].opts.cacheKey)
             /\ CallStep(c) )
           => /\ ecalls'[c].pc = "returned"
              /\ ecalls'[c].net = 0
              /\ ecalls'[c].result =
                    <<[data |-> stores[ecalls[c].core][makeKey(ecalls[c].opts.cacheKey)].data[1],
                       meta |-> {"fromCache"}]>>
      ]_vars

\* the value a lookup of `key` in the store of call c's LiraXCore yields
\* after the step
LiveAfter(c, key) == CacheGet(stores'[ecalls'[c].core], key, now').value

\* C14: a call that fails leaves the store as it was and leaves no value
\* under its cacheKey or its idempotency key that a later call would be
\* served, so that the later call goes to the network again; every write to
\* a store is by a call whose network call has succeeded.
C14_FailureWritesNothing ==
    [][ /\ \A c \in ECalls :
              (ecalls[c].pc # "failed" /\ ecalls'[c].pc = "failed") =>
                  /\ stores' = stores
                  /\ UsesCache(ecalls'[c]) =>
                        ~Truthy(LiveAfter(c, ecalls'[c].opts.cacheKey))
                  /\ ecalls'[c].opts.idempotencyKey # "" =>
                        ~Truthy(LiveAfter(c, IdemKey(ecalls'[c].opts.idempotencyKey)))
        /\ \A core \in Cores, key \in StoreKeys :
              ( /\ stores'[core][key] # stores[core][key]
                /\ stores'[core][key] # NoCacheEntry )
              => \E c \in ECalls :
                    /\ ecalls'[c].core = core
                    /\ ecalls'[c].net = 1
                    /\ ecalls'[c].result # <<>>
                    /\ stores'[core][key].data = <<ecalls'[c].result[1].data>>
      ]_vars

\* a call with both keys has failed in the transport
C14_Witness ==
    \E c \in ECalls :
        /\ ecalls[c].pc = "failed"
        /\ ecalls[c].net = 1
        /\ UsesCache(ecalls[c])
        /\ ecalls[c].opts.idempotencyKey = "k1"
        /\ stores[ecalls[c].core] = [key \in StoreKeys |-> NoCacheEntry]

\* ------------------------------------------------------------ cache writes
\* the entry set(key, value, ttl) leaves when called now
Written(value, ttl) == [data |-> <<value>>, expires |-> now + ttl * 1000]

\* call c has returned the response of its network call
ReturnedFromNetwork(c) == ecalls[c].pc = "returned" /\ ecalls[c].net = 1

\* C15 as stated: after a successful network call the response is stored
\* under cacheKey with cacheTTL (default 3600 s) whenever a cacheKey was
\* supplied, and under idempotency:{key} with idempotencyTTL (default
\* 86400 s) whenever an idempotencyKey was supplied.
C15_WritesWheneverKeySupplied ==
    \A c \in ECalls :
        ReturnedFromNetwork(c) =>
            LET call == ecalls[c]
                store == stores[call.core]
            IN  /\ call.opts.cacheKey # "" =>
                      store[makeKey(call.opts.cacheKey)] =
                          Written(call.result[1].data,
                                  Default(call.opts.cacheTTL, DEFAULT_CACHE_TTL))
                /\ call.opts.idempotencyKey # "" =>
                      store[makeKey(IdemKey(call.opts.idempotencyKey))] =
                          Written(call.result[1].data,
                                  Default(call.opts.idempotencyTTL, DEFAULT_IDEMPOTENCY_TTL))

\* a call that has returned the response of its network call has stored it
\* under cacheKey if it set useCache and supplied a cacheKey, and under
\* its idempotency key if it supplied one
StoredOnReturn ==
    \A c \in ECalls :
        ReturnedFromNetwork(c) =>
            LET call == ecalls[c]
                store == stores[call.core]
            IN  /\ UsesCache(call) =>
                      store[makeKey(call.opts.cacheKey)] =
                          Written(call.result[1].data,
                                  Default(call.opts.cacheTTL, DEFAULT_CACHE_TTL))
                /\ call.opts.idempotencyKey # "" =>
                      store[makeKey(IdemKey(call.opts.idempotencyKey))] =
                          Written(call.result[1].data,
                                  Default(call.opts.idempotencyTTL, DEFAULT_IDEMPOTENCY_TTL))

\* the steps of a call that does not set useCache leave the entry of its
\* cacheKey as it is
CacheKeyUntouched ==
    \A c \in ECalls :
        ( /\ CallStep(c)
          /\ ecalls'[c].pc # "idle"
          /\ ~ecalls'[c].opts.useCache
          /\ ecalls'[c].opts.cacheKey # "" )
        => stores'[ecalls'[c].core][makeKey(ecalls'[c].opts.cacheKey)]
              = stores[ecalls'[c].core][makeKey(ecalls'[c].opts.cacheKey)]

\* C15 (amended): after a successful network call the response is stored
\* under cacheKey with cacheTTL (default 3600 s) whenever useCache is set
\* and a cacheKey was supplied, and nothing is written under cacheKey
\* when useCache is not set; it is stored under idempotency:{key} with
\* idempotencyTTL (default 86400 s) whenever an idempotencyKey was
\* supplied, whether or not caching was requested.
C15_WritesWhenCachingRequested ==
    []StoredOnReturn /\ [][CacheKeyUntouched]_vars

\* a call without useCache has stored its response under its idempotency
\* key with the default TTL; a call with both has stored it under both
C15_Witness ==
    \E c \in ECalls :
        /\ ReturnedFromNetwork(c)
        /\ ~ecalls[c].opts.useCache
        /\ ecalls[c].opts.idempotencyKey = "k1"
        /\ ecalls[c].opts.idempotencyTTL = <<>>
        /\ stores[ecalls[c].core][makeKey(IdemKey("k1"))].expires
              = now + DEFAULT_IDEMPOTENCY_TTL * 1000

\* the entry under idempotency:k of a store is (over)written in this step
IdemEntryWritten(core, k) ==
    /\ stores'[core][makeKey(IdemKey(k))] # stores[core][makeKey(IdemKey(k))]
    /\ stores'[core][makeKey(IdemKey(k))] # NoCacheEntry

\* call c writes the response it has received under its idempotency key
WritesResponse(c, core, k) ==
    /\ ecalls[c].core = core
    /\ ecalls[c].opts.idempotencyKey = k
    /\ ecalls[c].net = 1
    /\ ecalls'[c].pc = "idemSet"
    /\ ecalls'[c].result # <<>>
    /\ stores'[core][makeKey(IdemKey(k))].data = <<ecalls'[c].result[1].data>>

\* C16: two executeOperation calls with the same idempotency key that
\* overlap can both miss the lookup and both perform the network operation,
\* because the check and the write are not atomic: the only write under
\* idempotency:k is the one a call makes after its own network request has
\* succeeded, so between a call's lookup and its response nothing under
\* the key tells a second call that the first one is in flight.
C16_CheckAndWriteNotAtomic ==
    [][\A core \in Cores, k \in IdempotencyKeys :
           IdemEntryWritten(core, k) => \E c \in ECalls : WritesResponse(c, core, k)]_vars

\* two calls with the same key have both missed and are both on the network
C16_Witness ==
    \E c, d \in ECalls :
        /\ c # d
        /\ ecalls[c].pc = "network" /\ ecalls[d].pc = "network"
        /\ ecalls[c].net = 1 /\ ecalls[d].net = 1
        /\ ecalls[c].core = ecalls[d].core
        /\ ecalls[c].opts.idempotencyKey # ""
        /\ ecalls[c].opts.idempotencyKey = ecalls[d].opts.idempotencyKey

RECURSIVE CarriedErrors(_)

\* the attempts' errors that can be read off an error object: the error
\* itself if an attempt raised it, the list in its description if it has
\* one, and otherwise what its cause carries
CarriedErrors(e) ==
    IF "attempt" \in DOMAIN e THEN <<e>>
    ELSE IF "name" \notin DOMAIN e THEN <<>>
    ELSE IF "errors" \in DOMAIN e.description THEN e.description.errors
    ELSE CarriedErrors(e.cause[1])

\* the errors raised by HTTP attempts among `errors`
HttpErrors(errors) == SelectSeq(errors, LAMBDA e : e.attempt > 0)

\* C17: when all endpoints and attempts of a liraxRequest call are
\* exhausted without success, the error surfaced carries the error of every
\* HTTP attempt made, one entry per attempt in attempt order.
C17_AggregatedErrorCarriesEveryAttempt ==
    (req.pc = "failed" /\ req.thrown = "Failover")
    => LET carried == HttpErrors(CarriedErrors(Surfaced(req)))
       IN  /\ Len(carried) = Len(req.log)
           /\ \A i \in 1 .. Len(carried) : carried[i].attempt = i

\* the causes of a failed call
BreakerRejected(r) == r.thrown = "CircuitOpen"

OnlyEndpoint400(r) ==
    /\ r.thrown = "Failover"
    /\ Len(validUrls(r.creds)) = 1
    /\ Len(r.log) = 1
    /\ r.caught[1].httpCode = 400

Exhausted(r) ==
    /\ r.thrown = "Failover"
    /\ Len(r.log) = Len(validUrls(r.creds)) * maxAttempts(r.creds)

\* C18: the class of the error surfaced identifies its cause: a rejection
\* by the open breaker surfaces as CircuitOpenError, a non-retryable HTTP 400
\* from the only endpoint as ValidationError, the exhaustion of all
\* endpoints and attempts as AggregatedFailoverError.
C18_ErrorClassIdentifiesCause ==
    req.pc = "failed"
    => /\ BreakerRejected(req) => Surfaced(req).name = "CircuitOpenError"
       /\ OnlyEndpoint400(req) => Surfaced(req).name = "ValidationError"
       /\ Exhausted(req) => Surfaced(req).name = "AggregatedFailoverError"

\* the base URLs of the credentials
Configured(creds) == {creds.baseUrl, creds.secondaryBaseUrl}

\* the URL begins with http:// or https://
HttpPrefixed(u) == u.scheme \in {"http", "https"}

\* the URL is a well-formed http(s) URL: the scheme and a host after it
WellFormed(u) == HttpPrefixed(u) /\ u.host

\* C19 as stated: only well-formed http:// or https:// base URLs are ever
\* attempted, and when neither base URL is one the call fails with the
\* configuration error after zero HTTP attempts.
C19_OnlyWellFormedAttempted ==
    /\ \A i \in 1 .. Len(req.log) :
           \E u \in Configured(req.creds) : u.name = req.log[i].url /\ WellFormed(u)
    /\ (req.pc # "idle" /\ \A u \in Configured(req.creds) : ~WellFormed(u))
       => /\ req.pc = "failed"
          /\ req.log = <<>>
          /\ req.thrown = "NoValidUrls"

\* C19, amended: only base URLs that begin with http:// or https:// are
\* ever attempted, and when neither base URL begins so the call makes zero
\* HTTP attempts and fails: with the configuration error, unless the circuit
\* breaker has rejected the call first.
C19_OnlyHttpPrefixedAttempted ==
    /\ \A i \in 1 .. Len(req.log) :
           \E u \in Configured(req.creds) : u.name = req.log[i].url /\ HttpPrefixed(u)
    /\ (req.pc # "idle" /\ \A u \in Configured(req.creds) : ~HttpPrefixed(u))
       => /\ req.pc = "failed"
          /\ req.log = <<>>
          /\ \/ req.thrown = "NoValidUrls"
             \/ ~req.bypass /\ req.thrown \in {"CircuitOpen", "HalfOpenExceeded"}

\* a call with an ftp:// primary and an ftp:// secondary base URL has failed
\* with the configuration error, without an HTTP attempt
C19_Witness ==
    /\ req.pc = "failed"
    /\ req.thrown = "NoValidUrls"
    /\ req.log = <<>>
    /\ req.creds.baseUrl = UrlFtp
    /\ req.creds.secondaryBaseUrl = UrlFtp

\* C20: once an HTTP attempt of a liraxRequest call succeeds, the call
\* returns that attempt's response and makes no further attempt on the same
\* or any later endpoint: a call with a successful attempt has returned, the
\* successful attempt is its last one and the only successful one, and what
\* it returns is the body that attempt received.
C20_ReturnsFirstSuccess ==
    /\ \A i \in 1 .. Len(req.log) : req.log[i].kind = "ok" => i = Len(req.log)
    /\ req.received # <<>> => req.pc = "returned"
    /\ req.pc = "returned"
       => /\ req.log # <<>>
          /\ req.log[Len(req.log)].kind = "ok"
          /\ Len(req.received) = 1
          /\ req.response = <<req.received[1]>>

\* a call with two endpoints has returned the response of its second
\* attempt on the first one, the second endpoint untried
C20_Witness ==
    /\ req.pc = "returned"
    /\ Len(validUrls(req.creds)) = 2
    /\ req.url = 1
    /\ Len(req.log) = 2
    /\ req.log[1].kind = "transient"
    /\ req.response = <<"queued">>

\* ------------------------------------------------------------ tenants
\* the breaker that the calls of a tenant go through
BreakerOf(tenant) == BreakerKey(TenantCredentials(tenant))

\* C21: breaker state is per credential/tenant: the failure of a call made
\* with one tenant's credentials never changes the breaker state seen by the
\* calls made with another tenant's credentials.
C21_TenantIsolation ==
    [][\A c \in BCalls, other \in Tenants :
           (FailureStep(c) /\ bcalls[c].tenant # other)
           => breakers'[BreakerOf(other)] = breakers[BreakerOf(other)]]_vars

\* ------------------------------------------------------------ bypass
\* the step belongs to a call made with bypassCircuitBreaker = true
BypassingStep ==
    \/ req.pc # "idle" /\ req.bypass
    \/ req'.pc # "idle" /\ req'.bypass

\* C22: a liraxRequest made with bypassCircuitBreaker = true goes directly
\* to the retry/failover client: it is never rejected by the breaker, OPEN or
\* not, it sends its first HTTP attempt at once when it has a valid base URL,
\* and no step of it, success or failure, changes the breaker's state or any
\* of its counters.
C22_BypassLeavesBreakerAlone ==
    [][ /\ BypassingStep => breakers' = breakers
        /\ (RequestStep /\ req'.bypass)
           => /\ req'.thrown \notin {"CircuitOpen", "HalfOpenExceeded"}
              /\ (validUrls(req'.creds) # <<>> /\ ~req'.aborted)
                 => (req'.pc = "http" /\ Len(req'.log) = 1)
      ]_vars

\* a bypassing call has made its HTTP attempts and failed while the breaker
\* is OPEN and within its reset timeout
C22_Witness ==
    /\ req.bypass
    /\ req.pc = "failed"
    /\ req.thrown = "Failover"
    /\ req.log # <<>>
    /\ breakers["default"].state = "OPEN"
    /\ now - breakers["default"].lastFailureTime <= CIRCUIT_BREAKER_RESET_TIMEOUT_MS
    /\ breakers["default"].failures = failureThreshold

\* ------------------------------------------------------------ C23
\* a step in which provider id reads key from a store that answers
ReadStep(id, key) ==
    /\ cache'.ops = cache.ops + 1
    /\ cache'.last.op = "get" /\ cache'.last.p = id /\ cache'.last.key = key
    /\ cache'.last.answered

\* the latest set of key through provider id gave a time to live
TimedSet(id, key) ==
    /\ cache.hist[id][key] # <<>>
    /\ cache.hist[id][key][1].ttlSeconds # <<>>
    /\ cache.hist[id][key][1].ttlSeconds[1] > 0

ExpiryOf(id, key) ==
    cache.hist[id][key][1].at + cache.hist[id][key][1].ttlSeconds[1] * 1000

\* C23: in every cache variant a get(k) answered by the store returns the
\* value of the latest set(k, v, ttl) that reached the store while the
\* clock has not passed set time + ttl seconds, and absent once it has; in
\* the in-process and on-disk variants the expired read removes the entry.
C23_ValueUntilExpiry ==
    [][\A id \in DOMAIN cache.providers, key \in CacheKeys :
          (ReadStep(id, key) /\ TimedSet(id, key))
          => IF now <= ExpiryOf(id, key)
             THEN cache'.last.value = <<cache.hist[id][key][1].value>>
             ELSE /\ cache'.last.value = <<>>
                  /\ cache.providers[id].variant \in {"memory", "file"}
                     => cache'.store[Phys(cache.providers[id], key)] = <<>>]_vars

\* the on-disk provider has read, past its expiry, an entry set with a
\* time to live of one second, and the file is gone
C23_Witness ==
    /\ cache.providers # <<>>
    /\ cache.providers[1].variant = "file"
    /\ cache.last.op = "get" /\ cache.last.answered /\ cache.last.value = <<>>
    /\ cache.hist[1][<<"k">>] # <<>>
    /\ cache.hist[1][<<"k">>][1].ttlSeconds = <<1>>
    /\ now > cache.hist[1][<<"k">>][1].at + 1000
    /\ cache.store[Phys(cache.providers[1], <<"k">>)] = <<>>
    /\ cache.stats[1].hits > 0

\* ------------------------------------------------------------ C24
LatestSet(id, key) == cache.hist[id][key][1]

\* the read returns what the latest set stored
ReadsLatest(id, key) == cache'.last.value = <<LatestSet(id, key).value>>

\* C24, as stated: in every cache variant an entry set with ttl = 0 or with
\* ttl omitted never expires: every later read that the store answers
\* returns it, until it is set again, deleted or cleared.
C24_ZeroOrOmittedNeverExpires ==
    [][\A id \in DOMAIN cache.providers, key \in CacheKeys :
          (/\ ReadStep(id, key)
           /\ cache.hist[id][key] # <<>>
           /\ LatestSet(id, key).ttlSeconds \in {<<>>, <<0>>})
          => ReadsLatest(id, key)]_vars

\* C24, amended: an entry set with ttl = 0 never expires; an entry set with
\* ttl omitted takes the provider's default time to live: it is read up to
\* that many seconds after the set and absent afterwards when the default
\* is positive, and never expires otherwise.
C24_ZeroNeverExpiresOmittedTakesDefault ==
    [][\A id \in DOMAIN cache.providers, key \in CacheKeys :
          (ReadStep(id, key) /\ cache.hist[id][key] # <<>>)
          => /\ LatestSet(id, key).ttlSeconds = <<0>> => ReadsLatest(id, key)
             /\ LatestSet(id, key).ttlSeconds = <<>>
                => IF cache.providers[id].defaultTTL > 0
                      /\ now > LatestSet(id, key).at
                                + cache.providers[id].defaultTTL * 1000
                   THEN cache'.last.value = <<>>
                   ELSE ReadsLatest(id, key)]_vars

\* the networked provider has read an entry set with ttl = 0 more than the
\* default time to live ago
C24_Witness ==
    /\ cache.providers # <<>>
    /\ cache.providers[1].variant = "redis"
    /\ cache.last.op = "get" /\ cache.last.answered
    /\ cache.hist[1][<<"k">>] # <<>>
    /\ cache.hist[1][<<"k">>][1].ttlSeconds = <<0>>
    /\ now > cache.hist[1][<<"k">>][1].at + PROVIDER_DEFAULT_TTL * 1000
    /\ cache.last.value = <<cache.hist[1][<<"k">>][1].value>>

\* ------------------------------------------------------------ C25
\* a step in which provider id has operated on the shared store
OperationBy(id) == cache'.ops = cache.ops + 1 /\ cache'.last.p = id

\* C25: of two providers with different key prefixes on one directory or
\* one key-value service, an operation of one (get, set, delete, clear)
\* leaves every entry of the other as it was, whatever the prefixes and keys.
C25_PrefixesIsolate ==
    [][\A id, other \in DOMAIN cache.providers, key \in CacheKeys :
          (OperationBy(id) /\ other # id /\ key \in DOMAIN cache.hist[other])
          => cache'.store[Phys(cache.providers[other], key)]
               = cache.store[Phys(cache.providers[other], key)]]_vars

\* ------------------------------------------------------------ C26
Created == cache.providers # <<>>

\* the networked or the on-disk provider was asked for
ExternalRequested == Created /\ cache.requested \in {"redis", "file"}

\* what the in-process contract makes a read of key return
InProcessRead(id, key) ==
    IF cache.hist[id][key] = <<>> THEN <<>>
    ELSE IF /\ Ttl(cache.providers[id], LatestSet(id, key).ttlSeconds) > 0
            /\ now > LatestSet(id, key).at
                      + Ttl(cache.providers[id], LatestSet(id, key).ttlSeconds) * 1000
    THEN <<>>
    ELSE <<LatestSet(id, key).value>>

\* C26, as stated: whenever the networked or on-disk provider is asked for
\* and a dependency is missing, its construction throws or its store cannot
\* be reached, CacheFactory.create returns a MemoryCacheProvider.
C26_FallsBackWheneverStoreUnusable ==
    (ExternalRequested
     /\ cache.env \in {"missingDependency", "initError", "unreachable"})
    => cache.providers[1].variant = "memory"

\* the provider that create returns after a require or a constructor threw
FallsBackOnThrow ==
    (ExternalRequested /\ cache.env \in {"missingDependency", "initError"})
    => cache.providers[1].variant = "memory"

\* an unreachable store does not make construction throw
ConstructedWhenUnreachable ==
    (ExternalRequested /\ cache.env = "unreachable")
    => /\ cache.providers[1].variant = cache.requested
       /\ \A name \in DOMAIN cache.store : cache.store[name] = <<>>

FallbackStep ==
    \A key \in CacheKeys :
       (/\ ExternalRequested /\ cache.providers[1].variant = "memory"
        /\ cache'.ops = cache.ops + 1
        /\ cache'.last.op = "get" /\ cache'.last.key = key)
       => /\ cache'.last.value = InProcessRead(1, key)
          /\ cache'.last.answered /\ ~cache'.last.threw

UnreachableStep ==
    (ExternalRequested /\ cache.env = "unreachable" /\ cache'.ops = cache.ops + 1)
    => cache'.last.value = <<>> /\ ~cache'.last.threw

\* C26, amended: CacheFactory.create returns a MemoryCacheProvider whenever
\* requiring a dependency or constructing the networked or on-disk provider
\* throws, and get/set on it follow the in-process contract; a store that
\* cannot be reached does not fail construction: create returns the
\* provider asked for, whose get returns absent and whose set stores nothing.
C26_FallsBackWhenConstructionThrows ==
    /\ [](FallsBackOnThrow /\ ConstructedWhenUnreachable)
    /\ [][FallbackStep /\ UnreachableStep]_vars

\* the provider returned in place of the networked one, ioredis missing,
\* has served a read from its own map
C26_Witness ==
    /\ ExternalRequested
    /\ cache.requested = "redis" /\ cache.env = "missingDependency"
    /\ cache.providers[1].variant = "memory"
    /\ cache.last.op = "get"
    /\ cache.last.value # <<>>
    /\ cache.stats[1].hits = 1

\* ------------------------------------------------------------ C27
\* call c starts a lookup in the store
LookupStep(c) ==
    /\ ecalls'[c].pc \in {"cacheGet", "idemGet"}
    /\ ecalls'[c].pc # ecalls[c].pc

\* the write that call c awaited is over
WriteOverStep(c) ==
    /\ ecalls[c].pc \in {"cacheSet", "idemSet"}
    /\ ecalls'[c].pc # ecalls[c].pc

\* C27: with the networked store unreachable no store operation rejects
\* and none fails executeOperation: a get returns absent and is counted as
\* a miss, and after a successful network call the cache write and the
\* idempotency write, which store nothing, are followed by the return of
\* the network result.
C27_StoreErrorsNeverSurface ==
    /\ [](\A c \in ECalls : ~ecalls[c].storeError)
    /\ [][\A c \in ECalls :
            /\ LookupStep(c)
               => /\ ecalls'[c].cached = <<>>
                  /\ cache'.stats[1].misses = cache.stats[1].misses + 1
                  /\ cache'.stats[1].hits = 0
            /\ WriteOverStep(c)
               => /\ ecalls'[c].pc \in {"idemSet", "returned"}
                  /\ ecalls'[c].result = ecalls[c].result
                  /\ ecalls'[c].result[1].meta = {}
            /\ (ecalls'[c].pc = "failed" /\ ecalls[c].pc # "failed")
               => ecalls[c].pc \in {"idle", "cacheGet", "idemGet", "network"}
            /\ \A name \in DOMAIN cache'.store : cache'.store[name] = <<>>]_vars

\* a call with a cacheKey and an idempotencyKey has returned the response
\* of its network call although both lookups and both writes found the
\* store unreachable
C27_Witness ==
    /\ StoreDown
    /\ \E c \in ECalls :
          /\ ecalls[c].pc = "returned"
          /\ UsesCache(ecalls[c]) /\ ecalls[c].opts.idempotencyKey # ""
          /\ ecalls[c].net = 1
          /\ ecalls[c].result # <<>> /\ ecalls[c].result[1].meta = {}
    /\ cache.stats[1].misses >= 2
    /\ cache.faulted

\* ------------------------------------------------------------ C28
\* the fields of a payload that hold a token, a phone number, an e-mail
\* address or an IP address
ProtectedFields == {"token", "phone", "email", "IP"}

\* the description prints `value` in full
Discloses(error, value) ==
    /\ "requestPayload" \in DOMAIN error.description
    /\ \E f \in DOMAIN error.description.requestPayload :
          Includes(error.description.requestPayload[f], value)

\* C28: the description of an error that LiraXErrorHandler.handle returns
\* has neither the token nor the full value of a phone, e-mail or IP field
\* of the payload.
C28_NoSecretInDescription ==
    handled.surfaced # <<>>
    => \A f \in DOMAIN handled.payload \cap ProtectedFields :
          ~Discloses(handled.surfaced[1], handled.payload[f])

\* ------------------------------------------------------------ C29
\* C29: the delay before retry N of an endpoint (N = 0 for the first one)
\* is within [backoffBase * 2^N * 0.8, backoffBase * 2^N * 1.2], both ends
\* capped at 30000 ms, for every N and every configured backoffBase.  The
\* delay is in thousandths of a millisecond.
C29_DelayWithinJitterBand ==
    backoff.delay # <<>>
    => /\ backoff.delay[1]
            >= Min(backoff.backoffBaseMs * Pow2(backoff.attempt) * 800,
                   MAX_RETRY_DELAY_MS * 1000)
       /\ backoff.delay[1]
            <= Min(backoff.backoffBaseMs * Pow2(backoff.attempt) * 1200,
                   MAX_RETRY_DELAY_MS * 1000)

\* ------------------------------------------------------------ C30
\* C30: a request made with the disableRetry option attempts each endpoint
\* exactly once, also when the error is retryable, and goes on to the next
\* endpoint: no endpoint is in its log of attempts twice.
C30_DisableRetryOneAttemptEach ==
    req.disableRetry
    => \A i, j \in 1 .. Len(req.log) : i # j => req.log[i].url # req.log[j].url

\* ------------------------------------------------------------ vendor errors
\* the bodies the transport resolves with that have a top-level `error`
\* field (HTTP 200)
ErrorBodies == {o.body : o \in {x \in HttpOutcomes : ~x.rejects /\ x.errorField # <<>>}}

\* the errors line 490 makes of them
VendorErrors ==
    {AttemptError(o) : o \in {x \in HttpOutcomes : ~x.rejects /\ x.errorField # <<>>}}

\* the HTTP attempts in the log that have ended without success
FailedAttempts == {i \in 1 .. Len(req.log) : req.log[i].kind \in {"transient", "permanent"}}

\* C31: a vendor response that has a top-level error field is never
\* returned to the caller as a success, even when the HTTP status is 200:
\* no call has received or returns such a body, and every attempt that ended
\* without a clean response has its error among the errors of the call, so
\* that a call that returns has one successful attempt, its last.
C31_ErrorFieldIsFailure ==
    /\ \A i \in 1 .. Len(req.received) : req.received[i] \notin ErrorBodies
    /\ \A body \in ErrorBodies : req.response # <<body>>
    /\ Cardinality(FailedAttempts) = Len(HttpErrors(req.allErrors))
    /\ (req.pc = "failed" /\ req.caught # <<>> /\ req.caught[1] \in VendorErrors)
       => req.response = <<>> /\ req.thrown = "Failover"

\* a call whose only attempt was answered HTTP 200 with
\* {error: "invalid phone"} has failed with that error
C31_Witness ==
    /\ req.pc = "failed"
    /\ Len(req.log) = 1
    /\ req.log[1].kind = "permanent"
    /\ req.caught = <<Err("", 0, <<"LiraX", "API", "error:", "invalid", "phone">>)>>
    /\ req.response = <<>>

\* ------------------------------------------------------------ cancellation
\* the HTTP requests the call has sent so far
Sent(r) == Len(r.log)

\* the call begins, or resumes after a backoff sleep: an HTTP attempt is
\* about to begin
AttemptDue == (req.pc = "idle" /\ req'.pc # "idle") \/ (req.pc = "backoff" /\ req'.pc # "backoff")

\* C32: if the cancellation signal is already aborted when an HTTP attempt
\* is about to begin, neither that attempt nor any later attempt of the call
\* is sent: the call fails without issuing a further HTTP request on any
\* endpoint, and a call whose signal is aborted never sends a request.
C32_AbortedSendsNothing ==
    [][/\ (AttemptDue /\ req'.aborted /\ req'.thrown \notin {"CircuitOpen", "HalfOpenExceeded", "NoValidUrls"})
          => /\ req'.pc = "failed"
             /\ req'.thrown = "Failover"
             /\ Sent(req') = Sent(req)
       /\ (req.aborted /\ req'.pc # "idle") => Sent(req') = Sent(req)]_vars

\* a call to two endpoints whose signal was aborted during the backoff
\* sleep after its first attempt has failed with that one request sent,
\* the second endpoint untried
C32_Witness ==
    /\ req.pc = "failed"
    /\ req.aborted
    /\ Len(validUrls(req.creds)) = 2
    /\ maxAttempts(req.creds) = 2
    /\ Len(req.log) = 1
    /\ req.log[1].kind = "transient"
    /\ Len(req.allErrors) = 3

\* ------------------------------------------------------------ webhook token
\* the token the request carries, as webhook() reads it
TokenOf(request) == parseWebhookBody(request.bodyData).from_LiraX_token

\* the token is missing, or differs from the configured incoming token
TokenRefused(request) ==
    \/ Falsy(TokenOf(request))
    \/ TokenOf(request)[1] # request.incomingToken

\* C33: when the incoming webhook's token is missing or differs from the
\* configured incoming token (and token validation is enabled), the webhook
\* handler fails with a 401 error and emits no workflow event for that
\* request.
C33_BadTokenIs401 ==
    (hook # NoHook /\ hook.request[1].validateToken /\ TokenRefused(hook.request[1]))
    => /\ hook.result[1].outcome = "thrown"
       /\ hook.result[1].error[1].httpCode = 401

\* ------------------------------------------------------------ continue on failure
\* the items whose operation has failed
FailedItems(r) == {i \in 0 .. r.n - 1 : r.results[i + 1] # <<>> /\ ~r.results[i + 1][1].success}

\* C34: in continue-on-failure mode the node's execute returns exactly one
\* result per input item: an item whose operation fails yields a
\* failed-but-handled result carrying its error instead of raising, and it
\* does not prevent the remaining items from being processed, in both the
\* sequential and the batched path.
C34_ContinueOnFailOneResultPerItem ==
    run.continueOnFail
    => /\ run.pc # "raised"
       /\ \A k \in DOMAIN run.ops : run.ops[k] # "rejected"
       /\ run.pc = "returned"
          => /\ Len(run.returnData) = run.n
             /\ \A i \in 0 .. run.n - 1 :
                    /\ run.ops[i + 1] = "resolved"
                    /\ run.returnData[i + 1].pairedItem = i
                    /\ run.returnData[i + 1] = run.results[i + 1][1]
                    /\ ~run.returnData[i + 1].success
                       => run.returnData[i + 1].error # <<>>

\* a batched run of three items in continue-on-failure mode has returned
\* three results, the first one failed and the later ones successful
C34_Witness ==
    /\ run.pc = "returned"
    /\ run.continueOnFail
    /\ run.enableBatching
    /\ run.n = 3
    /\ run.batchSize = 2
    /\ FailedItems(run) = {0}
    /\ Len(run.returnData) = 3
    /\ run.returnData[3].success

\* ------------------------------------------------------------ consecutive failures
\* C35: while the breaker is CLOSED, every successful call resets the
\* failure count to 0, so the breaker moves CLOSED to OPEN only when the
\* failureThreshold most recently completed calls all failed; a run of
\* failures interrupted by a success never opens it.
C35_OpensOnConsecutiveFailuresOnly ==
    [][\A id \in BreakerIds :
         breakers[id].state = "CLOSED" =>
           /\ breakers[id].failures = bhist[id].consecFailed
           /\ breakers[id].failures < failureThreshold
           /\ (\E c \in BCalls : SuccessStep(c) /\ bcalls[c].id = id)
              => breakers'[id].failures = 0 /\ breakers'[id].state = "CLOSED"
           /\ breakers'[id].state = "OPEN"
              => /\ \E c \in BCalls : FailureStep(c) /\ bcalls[c].id = id
                 /\ bhist'[id].consecFailed = failureThreshold]_vars

\* the breaker has opened from CLOSED at the fifth failure in a row, the
\* calls before them having closed it with three successes in HALF_OPEN
C35_Witness ==
    \E id \in BreakerIds :
        /\ breakers[id].state = "OPEN"
        /\ bhist[id].lastFailureIn = "CLOSED"
        /\ bhist[id].consecFailed = failureThreshold
        /\ bhist[id].hoSuccesses = 3
        /\ breakers[id].lastFailureTime = bhist[id].lastFailedAt

\* ------------------------------------------------------------ closing the breaker
\* C36: the breaker reaches CLOSED only through 3 successful completions of
\* calls that were admitted during the current HALF_OPEN period: the
\* completion of a call admitted earlier (while the breaker was CLOSED, or in
\* a previous HALF_OPEN period) never counts toward closing it, and no
\* completion moves it from OPEN to CLOSED.
C36_ClosedByOwnProbesOnly ==
    [][\A id \in BreakerIds :
         (breakers[id].state # "CLOSED" /\ breakers'[id].state = "CLOSED")
         => /\ breakers[id].state = "HALF_OPEN"
            /\ admitted'.own[id] = halfOpenMaxAttempts]_vars

\* ------------------------------------------------------------ waiters of a failed operation
\* throttle() of call c has thrown the error of another call's operation,
\* its own operation never invoked
FailedForAnother(c) ==
    /\ tcalls[c].pc = "aborted"
    /\ tcalls[c].entry.pending # c
    /\ tcalls[tcalls[c].entry.pending].pc = "rejected"

\* C37: if the in-flight operation for throttle key K fails, the calls to
\* throttle(K, op) that were waiting on it still run their own operations and
\* report their own outcomes; the failure is delivered only to the caller of
\* the operation that failed.
C37_FailureStaysWithItsCaller ==
    \A c \in TCalls : ~FailedForAnother(c)

\* ------------------------------------------------------------ termination
\* credentials.retries, the maxRetries of the specification
maxRetries(creds) == creds.retries

\* the call is in progress / has returned a response or failed
InProgress == req.pc \in {"http", "backoff"}
Over == req.pc \in {"returned", "failed"}

\* the bound on the HTTP attempts of the call
WithinAttemptBound ==
    Len(req.log) <= Len(validUrls(req.creds)) * (maxRetries(req.creds) + 1)

\* a backoff sleep is not begun after the last attempt on an endpoint
NoSleepAfterLastAttempt ==
    req.pc = "backoff" => req.attempt < maxRetries(req.creds)

\* C38: every liraxRequest call terminates, returning a response or
\* failing, after at most (number of valid endpoints) x (maxRetries + 1) HTTP
\* attempts, provided each HTTP attempt and each backoff sleep completes; no
\* backoff sleep follows the last attempt on an endpoint.
C38_TerminatesWithinAttemptBound ==
    /\ [](req.pc # "idle" => WithinAttemptBound)
    /\ []NoSleepAfterLastAttempt
    /\ InProgress ~> Over

\* ------------------------------------------------------------ sweep of breakers
\* C39: CircuitBreakerFactory.cleanup removes a tenant's breaker only when
\* the breaker has been inactive for more than 1 hour and has zero failures;
\* it never removes a breaker that is OPEN or HALF_OPEN, nor one that was
\* used within the last hour, so a sweep never resets a tripped breaker to a
\* fresh CLOSED one.
C39_SweepsIdleHealthyOnly ==
    \A id \in BreakerIds :
        swept[id].removed # <<>>
        => LET gone == swept[id].removed[1]
           IN  /\ gone.breaker.failures = 0
               /\ gone.breaker.state = "CLOSED"
               /\ gone.at - gone.lastUsed > BREAKER_CLEANUP_THRESHOLD_MS

\* ------------------------------------------------------------ eviction of throttle entries
\* the entry of key k is evicted by the step
Evicted(k) == throttleMap[k].present /\ ~throttleMap'[k].present

\* the operation of call c completes in the step
SettleStep(c) == tcalls[c].pc = "running" /\ tcalls'[c].pc \in {"resolved", "rejected"}

\* C40: ThrottlingManager.cleanup evicts exactly the entries whose last
\* invocation is more than 5 minutes old and that have no pending operation;
\* an entry whose operation is still in flight is never evicted, and after
\* any completed operation (success or failure) the entry's pending handle is
\* cleared so the entry becomes eligible.
C40_EvictsIdleEntriesOnly ==
    [][/\ \A k \in ThrottleKeys :
             Evicted(k) => /\ now - throttleMap[k].lastRequestTime > THROTTLE_CLEANUP_THRESHOLD_MS
                           /\ throttleMap[k].pending = 0
                           /\ Executing(k) = {}
       /\ (\E k \in ThrottleKeys : Evicted(k))
          => \A j \in ThrottleKeys :
                 (/\ throttleMap[j].present
                  /\ now - throttleMap[j].lastRequestTime > THROTTLE_CLEANUP_THRESHOLD_MS
                  /\ throttleMap[j].pending = 0) => Evicted(j)
       /\ \A c \in TCalls :
             (SettleStep(c) /\ throttleMap[tcalls[c].key].pending = c)
             => throttleMap'[tcalls[c].key].pending = 0]_vars

====
